---- MODULE Spec2Model ----
(***************************************************************************)
(* A model of django-ditto's Twitter fetch pipeline (ditto/twitter/fetch.py)*)
(* and of the code around it: the savers that upsert Users, Tweets and      *)
(* Photos, the per-account fetchers with their pagination and checkpoints,  *)
(* and the multi-account fetchers.                                          *)
(*                                                                         *)
(* The Django tables are sequences of rows (a row's pk is its index); the   *)
(* Twitter service is the remote state `timeline`, `liked`, `protected`.    *)
(***************************************************************************)
EXTENDS Integers, Sequences, FiniteSets, TLC

VARIABLES
    User,       \* table twitter.User: sequence of rows
    Tweet,      \* table twitter.Tweet
    Photo,      \* table twitter.Photo
    favorites,  \* the User.favorites many-to-many table: sequence of <<user pk, tweet pk>>
    Account,    \* table twitter.Account
    timeline,   \* remote: timeline[i] is the twitter_id of the author of tweet i
    liked,      \* remote: liked[u] is the set of tweet ids user u has favorited
    protected,  \* remote: protected[u] is user u's 'protected' flag
    f,          \* the FetchForAccount object of the run in progress
    mf,         \* the TwitterFetcher object in use
    calls,      \* the API calls made by the run in progress, each with what it returned
    start,      \* the tables and the remote service as they were when the run began
    synced,     \* synced[u]: u's remote favorites when u's last failure-free favorites fetch began
    now,        \* the clock: fetch_time of the next fetcher or saver call
    call,       \* the last direct saver call: [n, op, arg, repeat]
    FlickrPhoto,  \* table flickr.Photo
    Bookmark,   \* table pinboard.Bookmark
    response,   \* the last call of a view, templatetag, model method or command,
                \* with what it gave: [op, args, result]
    waiting     \* the runs of other processes, each where its process stands:
                \* sequence of [f, calls, start]

vars == <<User, Tweet, Photo, favorites, Account, timeline, liked, protected,
          f, mf, calls, start, synced, now, call, FlickrPhoto, Bookmark, response,
          waiting>>

db == <<User, Tweet, Photo, favorites>>
remote == <<timeline, liked, protected>>
site == <<FlickrPhoto, Bookmark, response, waiting>>

(***************************************************************************)
(* Bounds of the model.                                                     *)
(***************************************************************************)
\* Page size of the API calls (count=200 in the code), scaled down.
Count == 2
\* Highest tweet id the remote service hands out.
MaxId == 5
\* Number of fetcher objects created in one behaviour.
MaxTime == 2
\* Number of direct saver calls in one behaviour.
MaxCalls == 4
\* Number of tweets a user favorites in one behaviour.
MaxLiked == 2
\* Number of rows the website's tables hold.
MaxItems == 3

\* Python's None, for the integer-valued fields (ids, pks and counts are never negative).
None == -1
\* Python's None, for the string-valued fields.
Null == "None"

Falsy(s) == s \in {Null, ""}

Has(d, k) == k \in DOMAIN d

\* dict.update: the keys of d override those of r, r's other keys are kept.
Merge(d, r) == [k \in DOMAIN r |-> IF k \in DOMAIN d THEN d[k] ELSE r[k]]

Range(s) == {s[i] : i \in DOMAIN s}

(***************************************************************************)
(* TwitterItemMixin                                                         *)
(***************************************************************************)
ApiFormat == "%a %b %d %H:%M:%S +0000 %Y"
ArchiveFormat == "%Y-%m-%d %H:%M:%S +0000"

\* An api_time is a text in some format denoting a time: [format, time].
\* strptime raises ValueError when the text is not in time_format.
_api_time_raises(api_time, time_format) == api_time.format # time_format

_api_time_to_datetime(api_time, time_format) == api_time.time

(***************************************************************************)
(* json.dumps / json.loads: raw is a JSON text; a text that is not JSON     *)
(* makes json.loads raise ValueError.                                       *)
(***************************************************************************)
json_dumps(value) == [json |-> TRUE, value |-> value]

json_loads_raises(raw) == ~raw.json

json_loads(raw) == raw.value

(***************************************************************************)
(* QuerySet.update_or_create(twitter_id=..., defaults=...)                  *)
(***************************************************************************)
Lookup(table, twitter_id) == {i \in DOMAIN table : table[i].twitter_id = twitter_id}

\* A bug that would always INSERT.
always_create(table, twitter_id, defaults, blank) ==
    Append(table, Merge(defaults,
                        [blank EXCEPT !.pk = Len(table) + 1, !.twitter_id = twitter_id]))

update_or_create(table, twitter_id, defaults, blank) ==
    IF Lookup(table, twitter_id) = {}
    THEN Append(table, Merge(defaults,
                             [blank EXCEPT !.pk = Len(table) + 1, !.twitter_id = twitter_id]))
    ELSE LET i == CHOOSE i \in Lookup(table, twitter_id) : TRUE
         IN  [table EXCEPT ![i] = Merge(defaults, @)]

\* The object update_or_create returned.
Obj(table, twitter_id) == table[CHOOSE i \in Lookup(table, twitter_id) : TRUE]

(***************************************************************************)
(* Rows as the models create them when a field is not given.                *)
(***************************************************************************)
BlankUser ==
    [pk |-> None, twitter_id |-> None, fetch_time |-> None, raw |-> json_dumps(<<>>),
     screen_name |-> "", name |-> "", url |-> "", is_private |-> FALSE,
     is_verified |-> FALSE, created_at |-> None, description |-> "",
     favoritedcount |-> 0]

BlankTweet ==
    [pk |-> None, twitter_id |-> None, fetch_time |-> None, raw |-> json_dumps(<<>>),
     user |-> None, is_private |-> FALSE, created_at |-> None, permalink |-> <<>>,
     title |-> <<>>, summary |-> <<>>, text |-> <<>>, source |-> "",
     favorite_count |-> 0, latitude |-> None, longitude |-> None,
     in_reply_to_screen_name |-> "", quoted_status_id |-> None, photos_count |-> 0]

BlankPhoto ==
    [pk |-> None, twitter_id |-> None, tweet |-> None, url |-> "", is_private |-> FALSE,
     large_w |-> None, large_h |-> None, medium_w |-> None, medium_h |-> None,
     small_w |-> None, small_h |-> None, thumb_w |-> None, thumb_h |-> None]

(***************************************************************************)
(* TweetMixin.save_photos                                                   *)
(***************************************************************************)
PhotoDefaults(tweet, item) ==
    [tweet |-> tweet.pk, twitter_id |-> item.id, url |-> item.media_url_https,
     is_private |-> tweet.is_private,
     large_w  |-> IF Has(item.sizes, "large")  THEN item.sizes["large"].w  ELSE None,
     large_h  |-> IF Has(item.sizes, "large")  THEN item.sizes["large"].h  ELSE None,
     medium_w |-> IF Has(item.sizes, "medium") THEN item.sizes["medium"].w ELSE None,
     medium_h |-> IF Has(item.sizes, "medium") THEN item.sizes["medium"].h ELSE None,
     small_w  |-> IF Has(item.sizes, "small")  THEN item.sizes["small"].w  ELSE None,
     small_h  |-> IF Has(item.sizes, "small")  THEN item.sizes["small"].h  ELSE None,
     thumb_w  |-> IF Has(item.sizes, "thumb")  THEN item.sizes["thumb"].w  ELSE None,
     thumb_h  |-> IF Has(item.sizes, "thumb")  THEN item.sizes["thumb"].h  ELSE None]

Media(json_data) ==
    IF Has(json_data, "extended_entities") /\ Has(json_data["extended_entities"], "media")
    THEN json_data["extended_entities"]["media"]
    ELSE <<>>

\* A bug that would count the media of every type.
RECURSIVE save_photos_from_counting_all(_, _, _, _, _)
save_photos_from_counting_all(media, i, tweet, photos, photos_count) ==
    IF i > Len(media) THEN [photos |-> photos, photos_count |-> photos_count]
    ELSE IF Has(media[i], "type") /\ media[i]["type"] = "photo"
         THEN save_photos_from_counting_all(media, i + 1, tweet,
                  update_or_create(photos, media[i].id, PhotoDefaults(tweet, media[i]),
                                   BlankPhoto),
                  photos_count + 1)
         ELSE save_photos_from_counting_all(media, i + 1, tweet, photos, photos_count + 1)

\* The loop over media, from item i on: [photos, photos_count].
RECURSIVE save_photos_from(_, _, _, _, _)
save_photos_from(media, i, tweet, photos, photos_count) ==
    IF i > Len(media) THEN [photos |-> photos, photos_count |-> photos_count]
    ELSE IF Has(media[i], "type") /\ media[i]["type"] = "photo"
         THEN save_photos_from(media, i + 1, tweet,
                  update_or_create(photos, media[i].id, PhotoDefaults(tweet, media[i]),
                                   BlankPhoto),
                  photos_count + 1)
         ELSE save_photos_from(media, i + 1, tweet, photos, photos_count)

\* save_photos(tweet): the Photo table afterwards and the number returned.
save_photos(tweet, photos) ==
    IF json_loads_raises(tweet.raw) THEN [photos |-> photos, photos_count |-> 0]
    ELSE save_photos_from(Media(json_loads(tweet.raw)), 1, tweet, photos, 0)

(***************************************************************************)
(* TweetMixin.save_tweet                                                    *)
(***************************************************************************)
\* str.replace('\n', ' ').replace('\r', ' ') on a text, a sequence of characters.
Title(text) == [i \in DOMAIN text |-> IF text[i] \in {"\n", "\r"} THEN " " ELSE text[i]]

CreatedAt(tweet) ==
    IF _api_time_raises(tweet.created_at, ApiFormat)
    THEN _api_time_to_datetime(tweet.created_at, ArchiveFormat)
    ELSE _api_time_to_datetime(tweet.created_at, ApiFormat)

Optional(tweet, key, field) ==
    IF Has(tweet, key) THEN [k \in {field} |-> tweet[key]] ELSE <<>>

Coordinates(tweet) ==
    IF /\ Has(tweet, "coordinates")
       /\ tweet["coordinates"] # <<>>
       /\ Has(tweet["coordinates"], "type")
       /\ tweet["coordinates"]["type"] = "Point"
    THEN [latitude  |-> tweet["coordinates"]["coordinates"][2],
          longitude |-> tweet["coordinates"]["coordinates"][1]]
    ELSE <<>>

TweetDefaults(tweet, fetch_time, user) ==
    [fetch_time |-> fetch_time, raw |-> json_dumps(tweet), user |-> user.pk,
     is_private |-> user.is_private, created_at |-> CreatedAt(tweet),
     permalink |-> <<"https://twitter.com/", user.screen_name, "/status/", tweet.id>>,
     title |-> Title(tweet.text), summary |-> tweet.text, text |-> tweet.text,
     twitter_id |-> tweet.id, source |-> tweet.source,
     in_reply_to_screen_name |->
        IF Has(tweet, "in_reply_to_screen_name") /\ ~Falsy(tweet["in_reply_to_screen_name"])
        THEN tweet["in_reply_to_screen_name"] ELSE ""]
    @@ Optional(tweet, "favorite_count", "favorite_count")
    @@ Coordinates(tweet)
    @@ Optional(tweet, "quoted_status_id", "quoted_status_id")

\* save_tweet(tweet, fetch_time, user): the Tweet and Photo tables afterwards.
save_tweet(tweets, photos, tweet, fetch_time, user) ==
    LET upserted  == update_or_create(tweets, tweet.id,
                                      TweetDefaults(tweet, fetch_time, user), BlankTweet)
        tweet_obj == Obj(upserted, tweet.id)
        saved     == save_photos(tweet_obj, photos)
    IN  [tweets |-> [upserted EXCEPT ![tweet_obj.pk].photos_count = saved.photos_count],
         photos |-> saved.photos,
         pk     |-> tweet_obj.pk]

(***************************************************************************)
(* UserMixin.save_user                                                      *)
(***************************************************************************)
RECURSIVE ExpandedUrl(_, _, _, _)
ExpandedUrl(urls, i, url, user_url) ==
    IF i > Len(urls) THEN user_url
    ELSE ExpandedUrl(urls, i + 1, url,
            IF urls[i].url = url /\ urls[i].expanded_url # Null
            THEN urls[i].expanded_url ELSE user_url)

UserUrl(user) ==
    IF Falsy(user.url) THEN ""
    ELSE IF Has(user.entities, "url") /\ Has(user.entities["url"], "urls")
         THEN ExpandedUrl(user.entities["url"]["urls"], 1, user.url, user.url)
         ELSE user.url

UserDefaults(user, fetch_time) ==
    [fetch_time |-> fetch_time, raw |-> json_dumps(user),
     screen_name |-> user.screen_name, name |-> user.name, url |-> UserUrl(user),
     is_private |-> user.protected, is_verified |-> user.verified,
     created_at |-> _api_time_to_datetime(user.created_at, ApiFormat),
     description |-> IF Falsy(user.description) THEN "" ELSE user.description,
     favoritedcount |-> user.favourites_count]

\* save_user(user, fetch_time): the User table afterwards.
save_user(users, user, fetch_time) ==
    update_or_create(users, user.id, UserDefaults(user, fetch_time), BlankUser)

(***************************************************************************)
(* The Twitter service: what the API returns for a user and for a tweet.    *)
(***************************************************************************)
RemoteUsers == 1..3

\* The remote users the Accounts are for.
AccountUsers == 1..2

ScreenName(u) == IF u = 1 THEN "alice" ELSE IF u = 2 THEN "bob" ELSE "carol"

\* The JSON of user u. User 1 has a t.co url with its expansion, user 2 a url
\* without one, user 3 no url and no description.
UserPayload(u, is_protected) ==
    [id |-> u, screen_name |-> ScreenName(u), name |-> ScreenName(u),
     url |-> IF u = 3 THEN Null ELSE "https://t.co/u",
     entities |-> IF u = 1
                  THEN [url |-> [urls |-> << [url |-> "https://t.co/u",
                                              expanded_url |-> "https://example.org/"] >>]]
                  ELSE [description |-> <<>>],
     protected |-> is_protected, verified |-> FALSE,
     created_at |-> [format |-> ApiFormat, time |-> u],
     description |-> IF u = 3 THEN Null ELSE "hello",
     favourites_count |-> u]

PhotoItem(id, sizes) ==
    [id |-> id, type |-> "photo", media_url_https |-> "https://pbs.twimg.com/media/x.jpg",
     sizes |-> [s \in sizes |-> [w |-> 4, h |-> 3]]]

Variants == 1..3

\* The JSON of tweet id, posted by the user whose JSON is `user`.  Variant 1
\* is a bare tweet in the downloaded archive's format, variant 2 has the
\* optional fields of the API and one photo, variant 3 a photo and a GIF.
TweetPayload(id, user, variant) ==
    [id |-> id, user |-> user, source |-> "web",
     text |-> IF variant = 1 THEN <<"a", "\n", "b">> ELSE <<"a">>,
     created_at |-> [format |-> IF variant = 1 THEN ArchiveFormat ELSE ApiFormat,
                     time |-> id]]
    @@ (IF variant = 2
        THEN [favorite_count |-> 7,
              coordinates |-> [type |-> "Point", coordinates |-> <<10, 50>>],
              in_reply_to_screen_name |-> "bob",
              extended_entities |-> [media |-> << PhotoItem(100 + id, {"large", "small"}) >>]]
        ELSE <<>>)
    @@ (IF variant = 3
        THEN [in_reply_to_screen_name |-> Null,
              extended_entities |->
                [media |-> << PhotoItem(100, {"large", "medium", "small", "thumb"}),
                              [id |-> 200 + id, type |-> "animated_gif",
                               media_url_https |-> "https://pbs.twimg.com/media/y.jpg",
                               sizes |-> <<>>] >>]]
        ELSE <<>>)

VariantOf(id) == ((id - 1) % 3) + 1

\* The JSON the API returns for tweet id of the remote timeline.
RemoteTweet(id) ==
    TweetPayload(id, UserPayload(timeline[id], protected[timeline[id]]), VariantOf(id))

(***************************************************************************)
(* The state after construction.                                            *)
(***************************************************************************)
NoFetcher == [pc |-> "idle"]

NoMultiFetcher == [pc |-> "idle"]

NoCall == [n |-> 0, op |-> "none", arg |-> <<>>, repeat |-> FALSE, returned |-> None]

NoResponse == [op |-> "none", args |-> <<>>, result |-> <<>>]

\* The service holds one tweet, of the protected user, when the Account is made.
InitRemote ==
    /\ timeline = <<3>>
    /\ liked = [u \in RemoteUsers |-> {}]
    /\ protected = [u \in RemoteUsers |-> u = 3]
    /\ synced = [u \in RemoteUsers |-> [done |-> FALSE, liked |-> {}]]

InitIdle ==
    /\ f = NoFetcher
    /\ mf = NoMultiFetcher
    /\ calls = <<>>
    /\ start = <<>>
    /\ now = 1
    /\ call = NoCall
    /\ FlickrPhoto = <<>>
    /\ Bookmark = <<>>
    /\ response = NoResponse
    /\ waiting = <<>>

(***************************************************************************)
(* models.Account                                                           *)
(***************************************************************************)
NoCredentials ==
    [consumer_key |-> "", consumer_secret |-> "",
     access_token |-> "", access_token_secret |-> ""]

\* The credentials of remote user u.
Credentials(u) ==
    [consumer_key |-> "key", consumer_secret |-> "secret",
     access_token |-> "token-" \o ToString(u), access_token_secret |-> "secret"]

AccountRow(pk, user, is_active, credentials) ==
    [pk |-> pk, user |-> user, is_active |-> is_active,
     last_recent_id |-> None, last_favorite_id |-> None] @@ credentials

hasCredentials(account) ==
    /\ account.consumer_key # ""
    /\ account.consumer_secret # ""
    /\ account.access_token # ""
    /\ account.access_token_secret # ""

\* Account.__str__, reached from fetch() only for an Account without a user.
AccountStr(account) ==
    IF account.user # None THEN User[account.user].screen_name
    ELSE ToString(account.pk)

\* Model.save() writes every field of the object to its row (a new row when
\* the object has no pk yet).
AccountSave(table, account) ==
    IF account.pk = None
    THEN Append(table, [account EXCEPT !.pk = Len(table) + 1])
    ELSE [table EXCEPT ![account.pk] = account]

(***************************************************************************)
(* The Twitter API as Twython gives it: an API that honours since_id and    *)
(* max_id and returns each page newest-first, count tweets at most.         *)
(***************************************************************************)
Max(S) == CHOOSE m \in S : \A x \in S : x <= m

RECURSIVE NewestFirst(_, _)
NewestFirst(ids, n) ==
    IF ids = {} \/ n = 0 THEN <<>>
    ELSE <<Max(ids)>> \o NewestFirst(ids \ {Max(ids)}, n - 1)

Page(ids, count, max_id, since_id) ==
    NewestFirst({id \in ids : /\ (since_id = None \/ id > since_id)
                              /\ (max_id = None \/ id <= max_id)}, count)

Payloads(ids) == [i \in DOMAIN ids |-> RemoteTweet(ids[i])]

ListOf(items) == [type |-> "list", value |-> items]

DictOf(item) == [type |-> "dict", value |-> item]

\* len() of a list or of a dict.
Length(results) ==
    IF results.type = "list" THEN Len(results.value)
    ELSE Cardinality(DOMAIN results.value)

Twython(account) == [access_token |-> account.access_token]

TokenOwner(api) == CHOOSE u \in RemoteUsers : api.access_token = "token-" \o ToString(u)

get_user_timeline(user_id, count, max_id, since_id) ==
    ListOf(Payloads(Page({id \in DOMAIN timeline : timeline[id] = user_id},
                         count, max_id, since_id)))

get_favorites(user_id, count, max_id, since_id) ==
    ListOf(Payloads(Page(liked[user_id], count, max_id, since_id)))

verify_credentials(api) ==
    DictOf(UserPayload(TokenOwner(api), protected[TokenOwner(api)]))

(***************************************************************************)
(* FetchForAccount and its children.  kind is the class: "base" is          *)
(* FetchForAccount itself, "verify" VerifyForAccount, "recent"              *)
(* RecentTweetsForAccount, "favorites" FavoriteTweetsForAccount.            *)
(***************************************************************************)
Kinds == {"base", "verify", "recent", "favorites"}

Put(d, k, v) == (k :> v) @@ d

\* FetchForAccount.__init__.  `saved` is no attribute of the object: it records
\* whether the run called account.save().
FetchForAccount(kind, account, by, fetch_time) ==
    [kind |-> kind, by |-> by, pc |-> "fetch", depth |-> 0,
     account |-> account, api |-> Null, results |-> ListOf(<<>>), objects |-> <<>>,
     fetch_time |-> fetch_time, return_value |-> <<>>,
     max_id |-> None, last_id |-> None, results_count |-> 0, exception |-> Null,
     saved |-> FALSE]

\* A bug that would look at the pk before the user.
AccountNamePkFirst(account) ==
    IF account.pk # None THEN "Account: " \o AccountStr(account)
    ELSE IF account.user # None THEN User[account.user].screen_name
    ELSE "Unsaved Account"

AccountName(account) ==
    IF account.user # None THEN User[account.user].screen_name
    ELSE IF account.pk # None THEN "Account: " \o AccountStr(account)
    ELSE "Unsaved Account"

\* A bug that would call the API without looking at the credentials.
fetch_unchecked(o) ==
    [o EXCEPT !.return_value = Put(@, "account", AccountName(o.account)),
              !.api = Twython(o.account), !.pc = "_fetch_pages"]

\* fetch(), up to its call of _fetch_pages() or, without credentials, its return.
fetch(o) ==
    LET named == [o EXCEPT !.return_value = Put(@, "account", AccountName(o.account))]
    IN  IF hasCredentials(o.account)
        THEN [named EXCEPT !.api = Twython(o.account), !.pc = "_fetch_pages"]
        ELSE [named EXCEPT
                !.return_value = Put(Put(Put(@, "success", FALSE),
                                         "message", "Account has no API credentials"),
                                     "fetched", o.results_count),
                !.pc = "done"]

_since_id(o) ==
    IF o.kind = "recent" THEN o.account.last_recent_id
    ELSE IF o.kind = "favorites" THEN o.account.last_favorite_id
    ELSE None

\* What _call_api raises that _fetch_pages does not catch, or Null.
_call_api_raises(o) ==
    IF o.kind = "base" THEN "FetchError"
    ELSE IF o.kind \in {"recent", "favorites"} /\ o.account.user = None
         THEN "AttributeError"
         ELSE Null

\* The results _call_api sets when the API call succeeds.
_call_api(o) ==
    IF o.kind = "verify" THEN verify_credentials(o.api)
    ELSE IF o.kind = "recent"
         THEN get_user_timeline(User[o.account.user].twitter_id, Count,
                                o.max_id, _since_id(o))
         ELSE get_favorites(User[o.account.user].twitter_id, Count,
                            o.max_id, _since_id(o))

\* A bug that would insert a row whether or not the pair is there.
add_again(table, user, tweet) == Append(table, <<user, tweet>>)

\* QuerySet add() of the many-to-many manager: no second row for a pair.
add(table, user, tweet) ==
    IF <<user, tweet>> \in Range(table) THEN table ELSE Append(table, <<user, tweet>>)

\* The loop of RecentTweetsForAccount._save_results and of
\* FavoriteTweetsForAccount._save_results, from result i on.
RECURSIVE save_results_from(_, _, _, _)
save_results_from(o, i, tables, objects) ==
    IF i > Len(o.results.value) THEN tables @@ [objects |-> objects]
    ELSE LET tweet == o.results.value[i]
             users == save_user(tables.User, tweet.user, o.fetch_time)
             user  == Obj(users, tweet.user.id)
             saved == save_tweet(tables.Tweet, tables.Photo, tweet, o.fetch_time, user)
         IN  save_results_from(o, i + 1,
                [User |-> users, Tweet |-> saved.tweets, Photo |-> saved.photos,
                 favorites |-> IF o.kind = "favorites"
                               THEN add(tables.favorites, o.account.user, saved.pk)
                               ELSE tables.favorites],
                Append(objects, saved.pk))

\* _save_results: the tables afterwards and self.objects.
_save_results(o, tables) ==
    IF o.kind = "verify"
    THEN LET users == save_user(tables.User, o.results.value, o.fetch_time)
         IN  [tables EXCEPT !.User = users]
             @@ [objects |-> <<Obj(users, o.results.value.id).pk>>]
    ELSE IF o.kind = "base" THEN tables @@ [objects |-> <<>>]
    ELSE save_results_from(o, 1, tables, o.objects)

\* A bug that would return the user first saved, whoever was verified.
_post_save_first_user(o, users) ==
    IF o.kind = "verify"
    THEN [o EXCEPT !.return_value = Put(@, "user", users[1])]
    ELSE o

_post_save(o, users) ==
    IF o.kind = "verify"
    THEN [o EXCEPT !.return_value = Put(@, "user", users[o.objects[1]])]
    ELSE o

\* A bug that would take last_id from every page, not from the first alone.
NextPageLastIdAlways(o) ==
    [o EXCEPT !.last_id = o.results.value[1].id,
              !.max_id = o.results.value[Len(o.results.value)].id - 1,
              !.results_count = @ + Len(o.results.value)]

\* A bug that would count the last page only.
NextPageCountsLastPage(o) ==
    [o EXCEPT !.last_id = IF @ = None THEN o.results.value[1].id ELSE @,
              !.max_id = o.results.value[Len(o.results.value)].id - 1,
              !.results_count = Len(o.results.value)]

\* _fetch_pages, lines 341-345: the bookkeeping after a page of tweets.
NextPage(o) ==
    [o EXCEPT !.last_id = IF @ = None THEN o.results.value[1].id ELSE @,
              !.max_id = o.results.value[Len(o.results.value)].id - 1,
              !.results_count = @ + Len(o.results.value)]

\* A bug that would page only through a first fetch, when there is no since_id.
MorePagesWithoutSinceId(o) == _since_id(o) = None

\* _fetch_pages, line 346: whether it calls itself for the next page.
MorePages(o) == _since_id(o) = None \/ o.max_id > _since_id(o)

\* An invocation of _fetch_pages returns: to the invocation that called it,
\* or to fetch().
Return(o) == [o EXCEPT !.pc = IF o.depth = 0 THEN "_post_fetch" ELSE "unwind"]

Tables == [User |-> User, Tweet |-> Tweet, Photo |-> Photo, favorites |-> favorites]

Running == f.pc \in {"_fetch_pages", "unwind", "_post_fetch"}

ApiCall(raised, results) ==
    [kind |-> f.kind, max_id |-> f.max_id, since_id |-> _since_id(f), raised |-> raised,
     len |-> IF results.type = "list" THEN Len(results.value) ELSE 0,
     ids |-> IF results.type = "list"
             THEN {results.value[i].id : i \in DOMAIN results.value} ELSE {}]

\* _fetch_pages: _call_api raises an exception that is not a TwythonError,
\* which nothing in fetch() catches.
FetchPagesRaises ==
    /\ f.pc = "_fetch_pages"
    /\ _call_api_raises(f) # Null
    /\ f' = [f EXCEPT !.pc = "raised", !.exception = _call_api_raises(f)]
    /\ UNCHANGED <<site, db, Account, remote, mf, calls, start, synced, now, call>>

\* _fetch_pages: the API call raises TwythonError.
FetchPagesTwythonError ==
    /\ f.pc = "_fetch_pages"
    /\ _call_api_raises(f) = Null
    /\ f' = Return([f EXCEPT !.return_value =
                        Put(Put(@, "success", FALSE),
                            "message", "Error when calling API: TwythonError")])
    /\ calls' = Append(calls, ApiCall(TRUE, ListOf(<<>>)))
    /\ UNCHANGED <<site, db, Account, remote, mf, start, synced, now, call>>

\* _fetch_pages: the API call returns; its results are saved and, for a page
\* of tweets that may not be the last, _fetch_pages calls itself.
FetchPagesResults ==
    /\ f.pc = "_fetch_pages"
    /\ _call_api_raises(f) = Null
    /\ LET got == [f EXCEPT !.results = _call_api(f)]
       IN  /\ calls' = Append(calls, ApiCall(FALSE, got.results))
           /\ IF Length(got.results) > 0
              THEN LET saved == _save_results(got, Tables)
                       kept  == _post_save([got EXCEPT !.objects = saved.objects],
                                           saved.User)
                       paged == IF got.results.type = "list" THEN NextPage(kept) ELSE kept
                   IN  /\ User' = saved.User
                       /\ Tweet' = saved.Tweet
                       /\ Photo' = saved.Photo
                       /\ favorites' = saved.favorites
                       /\ f' = IF got.results.type = "list" /\ MorePages(paged)
                               THEN [paged EXCEPT !.depth = @ + 1]
                               ELSE Return([paged EXCEPT !.return_value =
                                                            Put(@, "success", TRUE)])
              ELSE /\ f' = Return([got EXCEPT !.return_value = Put(@, "success", TRUE)])
                   /\ UNCHANGED db
    /\ UNCHANGED <<site, Account, remote, mf, start, synced, now, call>>

\* _fetch_pages, line 349, in an invocation whose call of itself has returned.
FetchPagesUnwind ==
    /\ f.pc = "unwind"
    /\ f' = [f EXCEPT !.return_value = Put(@, "success", TRUE),
                      !.depth = @ - 1,
                      !.pc = IF f.depth = 1 THEN "_post_fetch" ELSE "unwind"]
    /\ UNCHANGED <<site, db, Account, remote, mf, calls, start, synced, now, call>>

\* A bug that would write the checkpoint without looking at last_id.
_post_fetch_unguarded(o) ==
    IF o.kind = "recent" THEN [o EXCEPT !.account.last_recent_id = o.last_id]
    ELSE IF o.kind = "favorites" THEN [o EXCEPT !.account.last_favorite_id = o.last_id]
    ELSE o

\* The process that runs fetch() is stopped between two pages: nothing more
\* is saved and _post_fetch() is not reached.
Interrupt ==
    /\ f.pc = "_fetch_pages"
    /\ f.depth > 0
    /\ f' = [f EXCEPT !.pc = "raised", !.exception = "KeyboardInterrupt"]
    /\ UNCHANGED <<site, db, Account, remote, mf, calls, start, synced, now, call>>

\* A bug that would keep both kinds' checkpoints in last_recent_id.
_post_fetch_one_checkpoint(o) ==
    IF o.kind \in {"recent", "favorites"} /\ o.last_id # None
    THEN [o EXCEPT !.account.last_recent_id = o.last_id]
    ELSE o

\* _post_fetch of the class: the object afterwards.
_post_fetch(o) ==
    IF o.kind = "recent" /\ o.last_id # None
    THEN [o EXCEPT !.account.last_recent_id = o.last_id]
    ELSE IF o.kind = "favorites" /\ o.last_id # None
         THEN [o EXCEPT !.account.last_favorite_id = o.last_id]
         ELSE o

\* Whether _post_fetch calls self.account.save().
_post_fetch_saves(o) == o.kind \in {"recent", "favorites"} /\ o.last_id # None

NoCallRaised == \A i \in DOMAIN calls : ~calls[i].raised

\* fetch(), lines 316-323: _post_fetch(), 'fetched', return.
PostFetch ==
    /\ f.pc = "_post_fetch"
    /\ LET o == _post_fetch(f)
       IN  /\ Account' = IF _post_fetch_saves(f) THEN AccountSave(Account, o.account)
                         ELSE Account
           /\ f' = [o EXCEPT !.return_value = Put(@, "fetched", o.results_count),
                             !.saved = _post_fetch_saves(f),
                             !.pc = "done"]
    /\ synced' = IF f.kind = "favorites" /\ NoCallRaised
                 THEN [synced EXCEPT ![User[f.account.user].twitter_id] =
                                        [done |-> TRUE, liked |-> start.liked]]
                 ELSE synced
    /\ UNCHANGED <<site, db, remote, mf, calls, start, now, call>>

\* What is recorded when a run begins.
Started(kind, account) ==
    [Account |-> Account,
     Tables |-> Tables,
     timeline |-> timeline,
     account |-> account,
     liked |-> IF kind = "favorites" /\ account.user # None
               THEN liked[User[account.user].twitter_id] ELSE {},
     synced |-> IF kind = "favorites" /\ account.user # None
                THEN synced[User[account.user].twitter_id]
                ELSE [done |-> FALSE, liked |-> {}]]

\* A per-account fetcher is made for `account` and its fetch() called.
Fetch(kind, account) ==
    /\ ~Running
    /\ mf.pc \notin {"constructed", "fetching"}
    /\ now <= MaxTime
    /\ f' = fetch(FetchForAccount(kind, account, "direct", now))
    /\ mf' = NoMultiFetcher
    /\ calls' = <<>>
    /\ start' = Started(kind, account)
    /\ now' = now + 1
    /\ UNCHANGED <<site, db, Account, remote, synced, call>>

(***************************************************************************)
(* The remote service changes between runs.                                 *)
(***************************************************************************)
Post(u) ==
    /\ ~Running
    /\ now <= MaxTime
    /\ Len(timeline) < MaxId
    /\ timeline' = Append(timeline, u)
    /\ UNCHANGED <<site, db, Account, liked, protected, f, mf, calls, start, synced, now, call>>

Like(u, id) ==
    /\ ~Running
    /\ now <= MaxTime
    /\ id \in DOMAIN timeline
    /\ id \notin liked[u]
    /\ Cardinality(liked[u]) < MaxLiked
    /\ liked' = [liked EXCEPT ![u] = @ \cup {id}]
    /\ UNCHANGED <<site, db, Account, timeline, protected, f, mf, calls, start, synced, now, call>>

(***************************************************************************)
(* One Account with credentials, fetched again and again while its user     *)
(* tweets and favorites.                                                    *)
(***************************************************************************)
\* Remote user u protects the account, or stops protecting it.
Protect(u) ==
    /\ ~Running
    /\ now <= MaxTime
    /\ protected' = [protected EXCEPT ![u] = ~@]
    /\ UNCHANGED <<site, db, Account, timeline, liked, f, mf, calls, start, synced, now, call>>

\* The User rows of the accounts' users, as VerifyForAccount saved them.
VerifiedUsers == save_user(save_user(<<>>, UserPayload(1, FALSE), 0), UserPayload(2, FALSE), 0)

Init ==
    /\ User = VerifiedUsers
    /\ Tweet = <<>>
    /\ Photo = <<>>
    /\ favorites = <<>>
    /\ Account = << AccountRow(1, 1, TRUE, Credentials(1)) >>
    /\ InitRemote
    /\ InitIdle

Next ==
    \/ Post(1)
    \/ \E id \in 1..MaxId : Like(1, id)
    \/ \E kind \in {"recent", "favorites"} : Fetch(kind, Account[1])
    \/ FetchPagesTwythonError
    \/ FetchPagesResults
    \/ FetchPagesUnwind
    \/ Interrupt
    \/ PostFetch

Spec == Init /\ [][Next]_vars

\* Runs of RecentTweetsForAccount alone, one after the other.
NextRecent ==
    \/ Post(1)
    \/ Fetch("recent", Account[1])
    \/ FetchPagesTwythonError
    \/ FetchPagesResults
    \/ FetchPagesUnwind
    \/ Interrupt
    \/ PostFetch

SpecRecent == Init /\ [][NextRecent]_vars

\* Runs of RecentTweetsForAccount for a user who posts and who changes the
\* 'protected' flag between the runs.
NextPrivacy ==
    \/ Post(1)
    \/ Protect(1)
    \/ Fetch("recent", Account[1])
    \/ FetchPagesTwythonError
    \/ FetchPagesResults
    \/ FetchPagesUnwind
    \/ PostFetch

SpecPrivacy == Init /\ [][NextPrivacy]_vars

(***************************************************************************)
(* Two runs for the same Account at the same time, in two processes, each   *)
(* with the Account object it loaded when its fetcher was made.  `f` is the *)
(* run of the process that takes the next step, `waiting` holds the other.  *)
(***************************************************************************)
Context == [f |-> f, calls |-> calls, start |-> start]

\* The first of the two runs begins.
FetchFirst(kind) ==
    /\ f.pc = "idle"
    /\ Fetch(kind, Account[1])

\* While a run is in progress another process loads the Account and begins a
\* run of its own.
FetchConcurrently(kind) ==
    /\ Running
    /\ waiting = <<>>
    /\ now <= MaxTime
    /\ waiting' = <<Context>>
    /\ f' = fetch(FetchForAccount(kind, Account[1], "direct", now))
    /\ calls' = <<>>
    /\ start' = Started(kind, Account[1])
    /\ now' = now + 1
    /\ UNCHANGED <<db, Account, remote, mf, synced, call, FlickrPhoto, Bookmark, response>>

\* The scheduler lets the other process take the next steps.
Switch ==
    /\ waiting # <<>>
    /\ Running \/ waiting[1].f.pc \in {"_fetch_pages", "unwind", "_post_fetch"}
    /\ waiting' = <<Context>>
    /\ f' = waiting[1].f
    /\ calls' = waiting[1].calls
    /\ start' = waiting[1].start
    /\ UNCHANGED <<db, Account, remote, mf, synced, now, call, FlickrPhoto, Bookmark,
                   response>>

NextConcurrent ==
    \/ f.pc = "idle" /\ Post(1)
    \/ f.pc = "idle" /\ \E id \in 1..MaxId : Like(1, id)
    \/ \E kind \in {"recent", "favorites"} : FetchFirst(kind)
    \/ \E kind \in {"recent", "favorites"} : FetchConcurrently(kind)
    \/ Switch
    \/ FetchPagesTwythonError
    \/ FetchPagesResults
    \/ FetchPagesUnwind
    \/ PostFetch

SpecConcurrent == Init /\ [][NextConcurrent]_vars

(***************************************************************************)
(* TwitterFetcher and its children: kind "base" is TwitterFetcher itself,   *)
(* "verify" VerifyFetcher, "recent" RecentTweetsFetcher, "favorites"        *)
(* FavoriteTweetsFetcher.                                                   *)
(***************************************************************************)
\* Account.objects.filter(is_active=True)
ActiveAccounts == SelectSeq(Account, LAMBDA account : account.is_active)

\* The rows Account.objects.get(user__screen_name=screen_name) matches.
Matching(screen_name) ==
    {pk \in DOMAIN Account : /\ Account[pk].user # None
                             /\ User[Account[pk].user].screen_name = screen_name}

\* A bug that would not look at is_active of the one Account asked for.
_set_accounts_raises_unchecked(screen_name) ==
    IF screen_name = Null
    THEN IF Len(ActiveAccounts) = 0 THEN "FetchError" ELSE Null
    ELSE IF Matching(screen_name) = {} THEN "FetchError"
    ELSE IF Cardinality(Matching(screen_name)) > 1 THEN "MultipleObjectsReturned"
    ELSE Null

\* What _set_accounts raises, or Null.
_set_accounts_raises(screen_name) ==
    IF screen_name = Null
    THEN IF Len(ActiveAccounts) = 0 THEN "FetchError" ELSE Null
    ELSE IF Matching(screen_name) = {} THEN "FetchError"
    ELSE IF Cardinality(Matching(screen_name)) > 1 THEN "MultipleObjectsReturned"
    ELSE IF Account[CHOOSE pk \in Matching(screen_name) : TRUE].is_active = FALSE
         THEN "FetchError"
         ELSE Null

\* A bug that would take every Account, active or not.
_set_accounts_unfiltered(screen_name) ==
    IF screen_name = Null THEN Account
    ELSE << Account[CHOOSE pk \in Matching(screen_name) : TRUE] >>

\* The accounts _set_accounts sets when it does not raise.
_set_accounts(screen_name) ==
    IF screen_name = Null THEN ActiveAccounts
    ELSE << Account[CHOOSE pk \in Matching(screen_name) : TRUE] >>

\* TwitterFetcher.__init__
TwitterFetcher(kind, screen_name) ==
    IF _set_accounts_raises(screen_name) # Null
    THEN [pc |-> "init_raised", kind |-> kind, screen_name |-> screen_name,
          exception |-> _set_accounts_raises(screen_name)]
    ELSE [pc |-> "constructed", kind |-> kind, screen_name |-> screen_name,
          accounts |-> _set_accounts(screen_name), return_values |-> <<>>,
          i |-> 1, waiting |-> FALSE, ran |-> <<>>, exception |-> Null]

Fetching == mf.pc \in {"constructed", "fetching"}

\* fetcher = SomeFetcher(screen_name=...)
Construct(kind, screen_name) ==
    /\ ~Running
    /\ ~Fetching
    /\ mf' = TwitterFetcher(kind, screen_name)
    /\ f' = NoFetcher
    /\ calls' = <<>>
    /\ start' = <<>>
    /\ UNCHANGED <<site, db, Account, remote, synced, now, call>>

\* TwitterFetcher.fetch, the loop: the fetcher of the next account is made
\* and its fetch() called.
MultiFetchAccount ==
    /\ Fetching
    /\ ~mf.waiting
    /\ mf.i <= Len(mf.accounts)
    /\ mf.kind # "base"
    /\ f' = [fetch(FetchForAccount(mf.kind, mf.accounts[mf.i], "multi", now))
                EXCEPT !.by = "multi"]
    /\ mf' = [mf EXCEPT !.pc = "fetching", !.waiting = TRUE,
                        !.ran = Append(@, mf.accounts[mf.i].pk)]
    /\ calls' = <<>>
    /\ start' = Started(mf.kind, mf.accounts[mf.i])
    /\ now' = now + 1
    /\ UNCHANGED <<site, db, Account, remote, synced, call>>

\* TwitterFetcher._get_account_fetcher names a class that does not exist.
MultiFetchNameError ==
    /\ Fetching
    /\ ~mf.waiting
    /\ mf.i <= Len(mf.accounts)
    /\ mf.kind = "base"
    /\ mf' = [mf EXCEPT !.pc = "raised", !.exception = "NameError"]
    /\ UNCHANGED <<site, db, Account, remote, f, calls, start, synced, now, call>>

\* The account's fetch() returned: _add_to_return_values.
MultiCollect ==
    /\ Fetching
    /\ mf.waiting
    /\ f.pc = "done"
    /\ mf' = [mf EXCEPT !.return_values = Append(@, f.return_value),
                        !.i = @ + 1, !.waiting = FALSE]
    /\ UNCHANGED <<site, db, Account, remote, f, calls, start, synced, now, call>>

\* The account's fetch() raised: the exception leaves TwitterFetcher.fetch.
MultiRaised ==
    /\ Fetching
    /\ mf.waiting
    /\ f.pc = "raised"
    /\ mf' = [mf EXCEPT !.pc = "raised", !.exception = f.exception]
    /\ UNCHANGED <<site, db, Account, remote, f, calls, start, synced, now, call>>

\* TwitterFetcher.fetch returns self.return_values.
MultiReturn ==
    /\ Fetching
    /\ ~mf.waiting
    /\ mf.i > Len(mf.accounts)
    /\ mf' = [mf EXCEPT !.pc = "returned"]
    /\ UNCHANGED <<site, db, Account, remote, f, calls, start, synced, now, call>>

(***************************************************************************)
(* One use of a fetcher, on any of the Account tables below.  Account 1 is  *)
(* alice's, account 2 bob's, account 3 was never verified and has no user;  *)
(* carol is a User no Account is for.                                       *)
(***************************************************************************)
UnsavedAccounts ==
    {AccountRow(None, None, TRUE, credentials) :
        credentials \in {NoCredentials, Credentials(3)}}

ScreenNames == {Null, "alice", "bob", "carol", "nope"}

InitAccounts ==
    /\ User = save_user(VerifiedUsers, UserPayload(3, TRUE), 0)
    /\ Tweet = <<>>
    /\ Photo = <<>>
    /\ favorites = <<>>
    /\ \E a1, a2, a3 \in BOOLEAN :
       \E c2 \in {NoCredentials, Credentials(2)} :
          Account = << AccountRow(1, 1, a1, Credentials(1)),
                       AccountRow(2, 2, a2, c2),
                       AccountRow(3, None, a3, Credentials(3)) >>
    /\ timeline = <<1, 2, 1, 1>>
    /\ liked = [u \in RemoteUsers |-> IF u = 1 THEN {2} ELSE {}]
    /\ protected = [u \in RemoteUsers |-> u = 3]
    /\ synced = [u \in RemoteUsers |-> [done |-> FALSE, liked |-> {}]]
    /\ InitIdle

\* Nothing was fetched yet in this behaviour.
Unused == f.pc = "idle" /\ mf.pc = "idle"

NextAccounts ==
    \/ Unused /\ \E kind \in Kinds : \E account \in Range(Account) \cup UnsavedAccounts :
                    Fetch(kind, account)
    \/ Unused /\ \E kind \in Kinds : \E screen_name \in ScreenNames :
                    Construct(kind, screen_name)
    \/ MultiFetchAccount
    \/ MultiFetchNameError
    \/ MultiCollect
    \/ MultiRaised
    \/ MultiReturn
    \/ FetchPagesRaises
    \/ FetchPagesTwythonError
    \/ FetchPagesResults
    \/ FetchPagesUnwind
    \/ PostFetch

SpecAccounts == InitAccounts /\ [][NextAccounts]_vars

(***************************************************************************)
(* The savers called directly, as ingest.TweetIngester and the fetchers do. *)
(***************************************************************************)
SaverCall(op, arg) ==
    [n |-> call.n + 1, op |-> op, arg |-> arg,
     repeat |-> call.op = op /\ call.arg = arg, returned |-> None]

SaveUser(user) ==
    /\ call.n < MaxCalls
    /\ User' = save_user(User, user, now)
    /\ now' = now + 1
    /\ call' = SaverCall("save_user", user)
    /\ UNCHANGED <<site, Tweet, Photo, favorites, Account, remote, f, mf, calls, start, synced>>

\* save_tweet is given the User object of whoever posted the tweet.
SaveTweet(tweet) ==
    /\ call.n < MaxCalls
    /\ Lookup(User, tweet.user.id) # {}
    /\ LET saved == save_tweet(Tweet, Photo, tweet, now, Obj(User, tweet.user.id))
       IN  /\ Tweet' = saved.tweets
           /\ Photo' = saved.photos
    /\ now' = now + 1
    /\ call' = SaverCall("save_tweet", tweet)
    /\ UNCHANGED <<site, User, favorites, Account, remote, f, mf, calls, start, synced>>

\* Texts a Tweet's raw may hold that save_tweet did not write: one that is not
\* JSON, and the JSON of a tweet whose extended_entities holds no media.
OtherRaws ==
    {[json |-> FALSE, value |-> <<>>],
     json_dumps([id |-> 1, extended_entities |-> [urls |-> <<>>]])}

\* The Tweet objects save_photos is given: a saved Tweet, as stored or with
\* another text in raw.
TweetObjects ==
    Range(Tweet) \cup {[Tweet[pk] EXCEPT !.raw = raw] : pk \in DOMAIN Tweet, raw \in OtherRaws}

SavePhotos(tweet) ==
    /\ call.n < MaxCalls
    /\ Photo' = save_photos(tweet, Photo).photos
    /\ now' = now + 1
    /\ call' = [SaverCall("save_photos", tweet)
                EXCEPT !.returned = save_photos(tweet, Photo).photos_count]
    /\ UNCHANGED <<site, User, Tweet, favorites, Account, remote, f, mf, calls, start, synced>>

SaverUsers == {UserPayload(u, p) : u \in 1..2, p \in BOOLEAN}

SaverTweets == {TweetPayload(id, UserPayload(1, FALSE), v) : id \in 1..2, v \in Variants}

InitSave ==
    /\ User = <<>>
    /\ Tweet = <<>>
    /\ Photo = <<>>
    /\ favorites = <<>>
    /\ Account = <<>>
    /\ InitRemote
    /\ InitIdle

NextSave ==
    \/ \E user \in SaverUsers : SaveUser(user)
    \/ \E tweet \in SaverTweets : SaveTweet(tweet)
    \/ \E tweet \in TweetObjects : SavePhotos(tweet)

SpecSave == InitSave /\ [][NextSave]_vars

(***************************************************************************)
(* The website: the managers of the public items, the templatetags and the  *)
(* views of ditto.ditto, over the tables of the three services.             *)
(***************************************************************************)
\* The days the site's items are posted on; a post_time is a day.
Days == 1..2

\* DittoItemModel.post_time of a Tweet: when it was posted.
TweetTimes == [pk \in DOMAIN Tweet |-> Tweet[pk].created_at]

PhotoTimes == [pk \in DOMAIN FlickrPhoto |-> FlickrPhoto[pk].post_time]

BookmarkTimes == [pk \in DOMAIN Bookmark |-> Bookmark[pk].post_time]

\* order_by('-post_time') of the rows pks.  The database decides the order of
\* rows with the same post_time: `ties` is that decision.
RECURSIVE order_by(_, _, _)
order_by(times, pks, ties) ==
    IF pks = {} THEN <<>>
    ELSE LET first == CHOOSE p \in pks : \A q \in pks :
                        \/ times[p] > times[q]
                        \/ times[p] = times[q] /\ (IF ties = "asc" THEN p <= q ELSE p >= q)
         IN  <<first>> \o order_by(times, pks \ {first}, ties)

\* queryset[:limit]
Slice(rows, limit) == SubSeq(rows, 1, IF limit < Len(rows) THEN limit ELSE Len(rows))

\* User.objects_with_accounts
objects_with_accounts == {Account[a].user : a \in DOMAIN Account} \ {None}

\* A bug that would trust the is_private copied to the Tweet when it was saved.
public_tweet_objects_by_tweet_flag ==
    {pk \in DOMAIN Tweet : /\ ~Tweet[pk].is_private
                           /\ Tweet[pk].user \in objects_with_accounts}

\* Tweet.public_tweet_objects: the tweets of the public users that have Accounts.
public_tweet_objects ==
    {pk \in DOMAIN Tweet : /\ ~User[Tweet[pk].user].is_private
                           /\ Tweet[pk].user \in objects_with_accounts}

\* A bug that would look at who favorited the tweet, not at who posted it.
public_favorite_objects_of_public_users ==
    {pk \in DOMAIN Tweet :
        \E u \in objects_with_accounts : ~User[u].is_private /\ <<u, pk>> \in Range(favorites)}

\* Tweet.public_favorite_objects: the tweets of public users that a user with
\* an Account has favorited.
public_favorite_objects ==
    {pk \in DOMAIN Tweet :
        /\ ~User[Tweet[pk].user].is_private
        /\ \E u \in objects_with_accounts : <<u, pk>> \in Range(favorites)}

\* Photo.public_photo_objects
public_photo_objects == {pk \in DOMAIN FlickrPhoto : ~FlickrPhoto[pk].is_private}

\* Bookmark.public_objects
public_bookmark_objects == {pk \in DOMAIN Bookmark : ~Bookmark[pk].is_private}

\* templatetags.twitter.recent_tweets
recent_tweets(screen_name, limit, ties) ==
    Slice(order_by(TweetTimes,
                   {pk \in public_tweet_objects :
                        screen_name = Null \/ User[Tweet[pk].user].screen_name = screen_name},
                   ties),
          limit)

\* templatetags.flickr.recent_photos
recent_photos(nsid, limit, ties) ==
    Slice(order_by(PhotoTimes,
                   {pk \in public_photo_objects : nsid = None \/ FlickrPhoto[pk].user = nsid},
                   ties),
          limit)

\* The numbers of items the home page shows.
HomePhotos == 4
HomeBookmarks == 3
HomeTweets == 3

\* views.HomeView: the context of the home page.
HomeView(ties) ==
    [flickr_photo_list |-> Slice(order_by(PhotoTimes, public_photo_objects, ties), HomePhotos),
     pinboard_bookmark_list |->
        Slice(order_by(BookmarkTimes, public_bookmark_objects, ties), HomeBookmarks),
     twitter_tweet_list |-> Slice(order_by(TweetTimes, public_tweet_objects, ties), HomeTweets),
     twitter_favorite_list |->
        Slice(order_by(TweetTimes, public_favorite_objects, ties), HomeTweets)]

\* views.DayArchiveView: the context of the page of one day.
DayArchiveView(day, ties) ==
    LET photos    == order_by(PhotoTimes,
                              {pk \in public_photo_objects : PhotoTimes[pk] = day}, ties)
        bookmarks == order_by(BookmarkTimes,
                              {pk \in public_bookmark_objects : BookmarkTimes[pk] = day}, ties)
        tweets    == order_by(TweetTimes,
                              {pk \in public_tweet_objects : TweetTimes[pk] = day}, ties)
        favorited == order_by(TweetTimes,
                              {pk \in public_favorite_objects : TweetTimes[pk] = day}, ties)
    IN  [day |-> day,
         flickr_photo_list |-> photos,
         pinboard_bookmark_list |-> bookmarks,
         twitter_tweet_list |-> tweets,
         twitter_favorite_list |-> favorited,
         total_count |-> Len(photos) + Len(bookmarks) + Len(tweets) + Len(favorited)]

\* order_by('post_time') is order_by('-post_time') of the negated times.
Ascending(times) == [pk \in DOMAIN times |-> 0 - times[pk]]

\* QuerySet.get(): the one row, or the exception it raises.
get(rows) ==
    IF Len(rows) = 1 THEN [raised |-> Null, value |-> rows[1]]
    ELSE IF Len(rows) = 0 THEN [raised |-> "DoesNotExist", value |-> None]
    ELSE [raised |-> "MultipleObjectsReturned", value |-> None]

\* try: return ... except: pass -- whatever is raised, the method returns None.
except_pass(got) ==
    IF got.raised # Null THEN [raised |-> Null, value |-> None] ELSE got

\* A bug that would order the next photos as the previous ones are ordered.
get_next_public_by_post_time_newest_first(self, ties) ==
    except_pass(get(Slice(order_by(PhotoTimes,
        {pk \in public_photo_objects :
            /\ PhotoTimes[pk] >= FlickrPhoto[self].post_time
            /\ FlickrPhoto[pk].user = FlickrPhoto[self].user} \ {self},
        ties), 1)))

\* Photo.get_next_public_by_post_time
get_next_public_by_post_time(self, ties) ==
    except_pass(get(Slice(order_by(Ascending(PhotoTimes),
        {pk \in public_photo_objects :
            /\ PhotoTimes[pk] >= FlickrPhoto[self].post_time
            /\ FlickrPhoto[pk].user = FlickrPhoto[self].user} \ {self},
        ties), 1)))

\* Photo.get_previous_public_by_post_time
get_previous_public_by_post_time(self, ties) ==
    except_pass(get(Slice(order_by(PhotoTimes,
        {pk \in public_photo_objects :
            /\ PhotoTimes[pk] <= FlickrPhoto[self].post_time
            /\ FlickrPhoto[pk].user = FlickrPhoto[self].user} \ {self},
        ties), 1)))

\* Photo.get_next
get_next(self, ties) == get_next_public_by_post_time(self, ties)

\* Photo.get_previous
get_previous(self, ties) == get_previous_public_by_post_time(self, ties)

(***************************************************************************)
(* The website's tables fill, as the fetchers and the admin fill them, and  *)
(* its pages are asked for.                                                 *)
(***************************************************************************)
SiteRows == Len(Tweet) + Len(favorites) + Len(FlickrPhoto) + Len(Bookmark)

Filling == response.op = "none" /\ SiteRows < MaxItems

\* Who posted tweet id: carol, bob, alice, carol, ...
Author(id) == 3 - ((id - 1) % 3)

\* The User of a protected (or no longer protected) remote user is saved again.
SiteSaveUser(u, is_protected) ==
    /\ response.op = "none"
    /\ User' = save_user(User, UserPayload(u, is_protected), now)
    /\ UNCHANGED <<Tweet, Photo, favorites, Account, remote, f, mf, calls, start, synced,
                   now, call, site>>

\* A tweet is saved as the fetchers save it: its user, then the tweet.
SiteSaveTweet(id) ==
    /\ Filling
    /\ LET user  == UserPayload(Author(id), Obj(User, Author(id)).is_private)
           users == save_user(User, user, now)
           saved == save_tweet(Tweet, Photo, TweetPayload(id, user, VariantOf(id)), now,
                               Obj(users, user.id))
       IN  /\ User' = users
           /\ Tweet' = saved.tweets
           /\ Photo' = saved.photos
    /\ UNCHANGED <<favorites, Account, remote, f, mf, calls, start, synced, now, call, site>>

\* user.favorites.add(tweet)
SiteFavorite(user, tweet) ==
    /\ Filling
    /\ <<user, tweet>> \notin Range(favorites)
    /\ favorites' = add(favorites, user, tweet)
    /\ UNCHANGED <<User, Tweet, Photo, Account, remote, f, mf, calls, start, synced, now,
                   call, site>>

\* A flickr Photo of `user` is saved.
SitePhoto(user, is_private, post_time) ==
    /\ Filling
    /\ FlickrPhoto' = Append(FlickrPhoto,
                             [pk |-> Len(FlickrPhoto) + 1, user |-> user,
                              is_private |-> is_private, post_time |-> post_time])
    /\ UNCHANGED <<db, Account, remote, f, mf, calls, start, synced, now, call,
                   Bookmark, response, waiting>>

\* A pinboard Bookmark is saved.
SiteBookmark(is_private, post_time) ==
    /\ Filling
    /\ Bookmark' = Append(Bookmark,
                          [pk |-> Len(Bookmark) + 1, is_private |-> is_private,
                           post_time |-> post_time])
    /\ UNCHANGED <<db, Account, remote, f, mf, calls, start, synced, now, call,
                   FlickrPhoto, response, waiting>>

\* A page or a templatetag is asked for and gives `result`.
Request(op, args, result) ==
    /\ response.op = "none"
    /\ response' = [op |-> op, args |-> args, result |-> result]
    /\ UNCHANGED <<db, Account, remote, f, mf, calls, start, synced, now, call,
                   FlickrPhoto, Bookmark, waiting>>

Ties == {"asc", "desc"}

Limits == 1..2

FlickrUsers == 1..2

InitSite ==
    /\ User = save_user(VerifiedUsers, UserPayload(3, TRUE), 0)
    /\ Tweet = <<>>
    /\ Photo = <<>>
    /\ favorites = <<>>
    /\ Account = << AccountRow(1, 1, TRUE, Credentials(1)),
                    AccountRow(2, 2, TRUE, Credentials(2)) >>
    /\ InitRemote
    /\ InitIdle

NextSite ==
    \/ \E is_protected \in BOOLEAN : SiteSaveUser(2, is_protected)
    \/ \E id \in 1..MaxItems : SiteSaveTweet(id)
    \/ \E user \in objects_with_accounts : \E tweet \in DOMAIN Tweet : SiteFavorite(user, tweet)
    \/ \E user \in FlickrUsers : \E is_private \in BOOLEAN : \E post_time \in Days :
            SitePhoto(user, is_private, post_time)
    \/ \E is_private \in BOOLEAN : \E post_time \in Days : SiteBookmark(is_private, post_time)
    \/ \E screen_name \in {Null, "alice", "bob", "carol"} : \E limit \in Limits :
       \E ties \in Ties :
            Request("recent_tweets", <<screen_name, limit>>,
                    recent_tweets(screen_name, limit, ties))
    \/ \E nsid \in {None} \cup FlickrUsers : \E limit \in Limits : \E ties \in Ties :
            Request("recent_photos", <<nsid, limit>>, recent_photos(nsid, limit, ties))
    \/ \E self \in DOMAIN FlickrPhoto : \E ties \in Ties :
            Request("get_next", <<self>>, get_next(self, ties))
    \/ \E self \in DOMAIN FlickrPhoto : \E ties \in Ties :
            Request("get_previous", <<self>>, get_previous(self, ties))
    \/ \E ties \in Ties : Request("home", <<>>, HomeView(ties))
    \/ \E day \in Days : \E ties \in Ties :
            Request("day_archive", <<day>>, DayArchiveView(day, ties))

SpecSite == InitSite /\ [][NextSite]_vars

(***************************************************************************)
(* ditto.lastfm.templatetags.ditto_lastfm.  A Python value is a record with *)
(* its type; a datetime.datetime has the fields year .. microsecond.        *)
(***************************************************************************)
PyNone == [type |-> "NoneType"]

datetime(year, month, day, hour, minute, second, microsecond) ==
    [type |-> "datetime", year |-> year, month |-> month, day |-> day, hour |-> hour,
     minute |-> minute, second |-> second, microsecond |-> microsecond]

\* calendar.isleap
isleap(year) == year % 4 = 0 /\ (year % 100 # 0 \/ year % 400 = 0)

\* calendar.monthrange(year, month)[1]: the number of days of the month.
monthrange(year, month) ==
    IF month = 2 THEN (IF isleap(year) THEN 29 ELSE 28)
    ELSE IF month \in {4, 6, 9, 11} THEN 30 ELSE 31

\* get_post_times(date, period): <<min_post_time, max_post_time>>
get_post_times(date, period) ==
    LET min_day == [date EXCEPT !.hour = 0, !.minute = 0, !.second = 0]
        max_day == [date EXCEPT !.hour = 23, !.minute = 59, !.second = 59,
                                !.microsecond = 999999]
    IN  IF period = "month"
        THEN << [min_day EXCEPT !.day = 1],
                [max_day EXCEPT !.day = monthrange(max_day.year, max_day.month)] >>
        ELSE IF period = "year"
             THEN << [min_day EXCEPT !.month = 1, !.day = 1],
                     [max_day EXCEPT !.month = 12, !.day = 31] >>
             ELSE << min_day, max_day >>

\* The datetimes the templatetags are given: around the ends of months, in
\* leap years and in others.
Years == {1900, 2000, 2015, 2016}

Months == {1, 2, 4, 12}

Datetimes ==
    {datetime(year, month, day, hour, minute, second, microsecond) :
        year \in Years, month \in Months, day \in {1, 15, 28, 29, 30, 31},
        hour \in {0, 13, 23}, minute \in {0, 59}, second \in {0, 59},
        microsecond \in {0, 500, 999999}}

\* The datetimes that exist.
ValidDatetimes == {date \in Datetimes : date.day <= monthrange(date.year, date.month)}

Periods == {"day", "month", "year"}

\* get_post_times is called.
GetPostTimes(date, period) ==
    Request("get_post_times", <<date, period>>, get_post_times(date, period))

\* The arguments the top_... templatetags are given, good and bad.  A str,
\* an int and a bool are written as Python writes them.
PyStr(value) == [type |-> "str", value |-> value]

PyInt(value) == [type |-> "int", value |-> value]

PyBool(value) == [type |-> "bool", value |-> value]

LastfmAccounts == {PyNone, [type |-> "Account", pk |-> 1], PyStr("alice")}

LastfmArtists == {PyNone, [type |-> "Artist", pk |-> 1], PyStr("Lou Reed")}

TopLimits == {PyInt("10"), PyStr("all"), PyStr("10"), PyNone, PyBool("True")}

TopDates ==
    {PyNone, datetime(2016, 2, 29, 13, 24, 5, 500),
     [type |-> "date", year |-> 2016, month |-> 2, day |-> 29], PyStr("2016-02-29")}

TopPeriods == {PyNone, PyInt("7")} \cup {PyStr(period) : period \in Periods \cup {"week"}}

\* isinstance(value, int): a bool is an int too.
isinstance_int(value) == value.type \in {"int", "bool"}

\* A bug that would let a period without a date through.
check_top_kwargs_without_only_period(kwargs) ==
    LET account == kwargs.account
        limit   == kwargs.limit
        date    == kwargs.date
        period  == kwargs.period
    IN  IF account # PyNone /\ account.type # "Account" THEN "TypeError"
        ELSE IF limit # PyStr("all") /\ isinstance_int(limit) = FALSE THEN "ValueError"
        ELSE IF date # PyNone /\ period = PyNone THEN "TypeError"
        ELSE IF date # PyNone /\ date.type # "datetime" THEN "TypeError"
        ELSE IF /\ date # PyNone
                /\ period # PyNone
                /\ period \notin {PyStr("day"), PyStr("month"), PyStr("year")}
             THEN "TypeError"
             ELSE Null

\* What check_top_kwargs raises, or Null.
check_top_kwargs(kwargs) ==
    LET account == kwargs.account
        limit   == kwargs.limit
        date    == kwargs.date
        period  == kwargs.period
    IN  IF account # PyNone /\ account.type # "Account" THEN "TypeError"
        ELSE IF limit # PyStr("all") /\ isinstance_int(limit) = FALSE THEN "ValueError"
        ELSE IF date # PyNone /\ period = PyNone THEN "TypeError"
        ELSE IF date = PyNone /\ period # PyNone THEN "TypeError"
        ELSE IF date # PyNone /\ date.type # "datetime" THEN "TypeError"
        ELSE IF /\ date # PyNone
                /\ period # PyNone
                /\ period \notin {PyStr("day"), PyStr("month"), PyStr("year")}
             THEN "TypeError"
             ELSE Null

Tags == {"top_albums", "top_artists", "top_tracks"}

\* What the tag raises after check_top_kwargs let the arguments through, or Null.
artist_raises(tag, artist) ==
    IF tag # "top_artists" /\ artist # PyNone /\ artist.type # "Artist" THEN "TypeError"
    ELSE Null

\* The keyword arguments of with_scrobble_counts().
qs_kwargs(tag, account, artist, date, period) ==
    (IF account # PyNone THEN [account |-> account] ELSE <<>>)
    @@ (IF tag # "top_artists" /\ artist # PyNone THEN [artist |-> artist] ELSE <<>>)
    @@ (IF date # PyNone /\ period # PyNone /\ period # PyStr("")
        THEN [min_post_time |-> get_post_times(date, period.value)[1],
              max_post_time |-> get_post_times(date, period.value)[2]]
        ELSE <<>>)

\* top_albums, top_artists, top_tracks: what is raised, or the query that is run.
top(tag, account, artist, limit, date, period) ==
    LET kwargs == [account |-> account, limit |-> limit, date |-> date, period |-> period]
    IN  IF check_top_kwargs(kwargs) # Null
        THEN [raised |-> check_top_kwargs(kwargs), queried |-> FALSE]
        ELSE IF artist_raises(tag, artist) # Null
             THEN [raised |-> artist_raises(tag, artist), queried |-> FALSE]
             ELSE [raised |-> Null, queried |-> TRUE,
                   qs_kwargs |-> qs_kwargs(tag, account, artist, date, period),
                   limit |-> limit]

\* One of the three tags is used in a template.
Top(tag, account, artist, limit, date, period) ==
    Request(tag, <<account, artist, limit, date, period>>,
            top(tag, account, artist, limit, date, period))

InitLastfm ==
    /\ User = <<>>
    /\ Tweet = <<>>
    /\ Photo = <<>>
    /\ favorites = <<>>
    /\ Account = <<>>
    /\ InitRemote
    /\ InitIdle

NextLastfm ==
    \/ \E date \in ValidDatetimes : \E period \in Periods : GetPostTimes(date, period)
    \/ \E tag \in Tags : \E account \in LastfmAccounts : \E limit \in TopLimits :
       \E artist \in (IF tag = "top_artists" THEN {PyNone} ELSE LastfmArtists) :
       \E date \in TopDates : \E period \in TopPeriods :
            Top(tag, account, artist, limit, date, period)

SpecLastfm == InitLastfm /\ [][NextLastfm]_vars

(***************************************************************************)
(* management/commands/fetch_twitter_tweets.py                              *)
(***************************************************************************)
\* The names ditto/twitter/fetch.py defines or imports.
FetchModuleNames ==
    {"datetime", "json", "pytz", "time", "Twython", "TwythonError",
     "Account", "Photo", "Tweet", "User", "FetchError",
     "TwitterItemMixin", "TweetMixin", "UserMixin",
     "FetchForAccount", "VerifyForAccount", "RecentTweetsForAccount",
     "FavoriteTweetsForAccount", "TwitterFetcher", "VerifyFetcher",
     "RecentTweetsFetcher", "FavoriteTweetsFetcher"}

\* from ...fetch import <name>: what it raises, or Null.
import_raises(name) == IF name \in FetchModuleNames THEN Null ELSE "ImportError"

\* bool(value)
Truthy(value) == value \notin {PyNone, PyBool("False"), PyStr("")}

\* The options argparse gives handle(): --favorites and --account store a
\* string, --recent stores True, each False when left out.
CommandOptions ==
    [favorites : {PyBool("False"), PyStr("30")},
     recent    : {PyBool("False"), PyBool("True")},
     account   : {PyBool("False"), PyStr("alice"), PyStr("")}]

\* Command.handle(**options), up to the call of the fetcher or the CommandError.
handle(options) ==
    LET account == IF Truthy(options.account) THEN options.account ELSE PyNone
    IN  IF Truthy(options.favorites)
        THEN [raised |-> Null, called |-> "fetch_favorites", screen_name |-> account,
              num |-> options.favorites]
        ELSE IF Truthy(options.recent)
        THEN [raised |-> Null, called |-> "fetch_recent", screen_name |-> account]
        ELSE IF Truthy(options.account)
        THEN [raised |-> "CommandError", called |-> "none",
              message |-> "Specify --recent or --favorites as well as --account."]
        ELSE [raised |-> "CommandError", called |-> "none",
              message |-> "Specify --recent or --favorites, either with an optional number."]

\* ./manage.py fetch_twitter_tweets: the module of the command is imported,
\* then its handle() is called.
fetch_twitter_tweets(options) ==
    IF import_raises("FetchTweets") # Null
    THEN [raised |-> import_raises("FetchTweets"), called |-> "none"]
    ELSE handle(options)

\* The command is run from the shell.
RunCommand(options) ==
    /\ Unused
    /\ Request("fetch_twitter_tweets", <<options>>, fetch_twitter_tweets(options))

NextCommand == \E options \in CommandOptions : RunCommand(options)

SpecCommand == InitAccounts /\ [][NextCommand]_vars

(***************************************************************************)
(* flickr Photo: the <size>_url attributes.  A name is the sequence of its  *)
(* parts between underscores, <<"small", "320", "url">> for small_320_url; a *)
(* formatted string is the sequence of the pieces it is put together from.  *)
(***************************************************************************)
\* Photo.PHOTO_SIZES
PHOTO_SIZES ==
    (<<"square">>          :> [label |-> "Square",       suffix |-> "s"]) @@
    (<<"large", "square">> :> [label |-> "Large square", suffix |-> "q"]) @@
    (<<"thumbnail">>       :> [label |-> "Thumbnail",    suffix |-> "t"]) @@
    (<<"small">>           :> [label |-> "Small",        suffix |-> "m"]) @@
    (<<"small", "320">>    :> [label |-> "Small 320",    suffix |-> "n"]) @@
    (<<"medium">>          :> [label |-> "Medium",       suffix |-> ""])  @@
    (<<"medium", "640">>   :> [label |-> "Medium 640",   suffix |-> "z"]) @@
    (<<"medium", "800">>   :> [label |-> "Medium 800",   suffix |-> "c"]) @@
    (<<"large">>           :> [label |-> "Large",        suffix |-> "b"]) @@
    (<<"large", "1600">>   :> [label |-> "Large 1600",   suffix |-> "h"]) @@
    (<<"large", "2048">>   :> [label |-> "Large 2048",   suffix |-> "k"]) @@
    (<<"original">>        :> [label |-> "Original",     suffix |-> "o"])

\* Photo.VIDEO_SIZES
VIDEO_SIZES ==
    (<<"mobile", "mp4">>     :> [label |-> "Mobile MP4",     url_size |-> "mobile"]) @@
    (<<"site", "mp4">>       :> [label |-> "Site MP4",       url_size |-> "site"])   @@
    (<<"hd", "mp4">>         :> [label |-> "HD MP4",         url_size |-> "hd"])     @@
    (<<"video", "original">> :> [label |-> "Video Original", url_size |-> "orig"])

\* '%s' % n of a non-negative integer: its decimal digits.
RECURSIVE str(_)
str(n) ==
    LET digit == <<"0", "1", "2", "3", "4", "5", "6", "7", "8", "9">>[(n % 10) + 1]
    IN  IF n < 10 THEN <<digit>> ELSE str(n \div 10) \o <<digit>>

\* A formatted string, and the None a helper returns instead of one.
Formatted(pieces) == [type |-> "str", pieces |-> pieces]

\* Photo._image_url
_image_url(self, size) ==
    IF size = <<"original">>
    THEN Formatted(<<"https://farm">> \o str(self.farm) \o <<".static.flickr.com/">>
                   \o <<self.server, "/">> \o str(self.flickr_id)
                   \o <<"_", self.original_secret, "_">>
                   \o <<PHOTO_SIZES[<<"original">>].suffix, ".", self.original_format>>)
    ELSE IF size \notin DOMAIN PHOTO_SIZES THEN PyNone
    ELSE LET size_ext == IF PHOTO_SIZES[size].suffix # ""
                         THEN <<"_", PHOTO_SIZES[size].suffix>> ELSE <<>>
         IN  Formatted(<<"https://farm">> \o str(self.farm) \o <<".static.flickr.com/">>
                       \o <<self.server, "/">> \o str(self.flickr_id)
                       \o <<"_", self.secret>> \o size_ext \o <<".jpg">>)

\* A bug that would use the same secret for every video size.
_video_url_one_secret(self, size) ==
    IF self.media = "photo" THEN PyNone
    ELSE Formatted(<<self.permalink, "play/", VIDEO_SIZES[size].url_size, "/",
                     self.secret, "/">>)

\* Photo._video_url
_video_url(self, size) ==
    IF self.media = "photo" THEN PyNone
    ELSE LET secret == IF size = <<"video", "original">>
                       THEN self.original_secret ELSE self.secret
         IN  Formatted(<<self.permalink, "play/", VIDEO_SIZES[size].url_size, "/",
                         secret, "/">>)

\* Photo._raise_attr_error
_raise_attr_error == [raised |-> "AttributeError", value |-> PyNone]

\* Photo.__getattr__, which Python calls for a name that nothing else defines.
\* name.rsplit('_', 1) gives one string, and the unpacking a ValueError, for a
\* name without an underscore.
__getattr__(self, name) ==
    IF Len(name) < 2 THEN _raise_attr_error
    ELSE LET size == SubSeq(name, 1, Len(name) - 1)
             attr == name[Len(name)]
         IN  IF attr = "url"
             THEN IF size \in DOMAIN VIDEO_SIZES
                  THEN [raised |-> Null, value |-> _video_url(self, size)]
                  ELSE IF size \in DOMAIN PHOTO_SIZES
                       THEN [raised |-> Null, value |-> _image_url(self, size)]
                       ELSE _raise_attr_error
             ELSE _raise_attr_error

\* The Photos whose attributes are read.
FlickrPhotos ==
    [farm : {2, 10}, server : {"1234"}, flickr_id : {9, 1355822598},
     secret : {"9766e4a56d"}, original_secret : {"a6ef2e0b31"},
     original_format : {"jpg", "png"}, media : {"photo", "video"},
     permalink : {"https://www.flickr.com/photos/philgyford/1355822598/"}]

\* The names read that no field, property or method of Photo defines.
MissingNames ==
    {size \o <<"url">> : size \in DOMAIN PHOTO_SIZES \cup DOMAIN VIDEO_SIZES}
    \cup {<<"url">>, <<"">>, <<"medium">>, <<"", "url">>, <<"tiny", "url">>,
          <<"small", "240", "url">>, <<"medium", "uri">>, <<"original", "url", "">>,
          <<"mp4", "url">>, <<"video", "url">>, <<"url", "medium">>,
          <<"original", "secret", "url">>}

\* photo.<name> is read.
GetAttr(self, name) ==
    /\ Unused
    /\ Request("__getattr__", <<self, name>>, __getattr__(self, name))

NextFlickr == \E self \in FlickrPhotos : \E name \in MissingNames : GetAttr(self, name)

SpecFlickr == InitLastfm /\ [][NextFlickr]_vars

(***************************************************************************)
(* twitter/migrations/0053_tweet_post_year.py.  Here a Tweet row is its pk, *)
(* its post_time, which migration 0052 lets be null, and the post_year      *)
(* column that AddField has just added, null in every row.                  *)
(***************************************************************************)
\* The post_time values of the rows: null, and times of two years.
MigratedPostTimes ==
    {PyNone, datetime(2015, 12, 31, 23, 59, 59, 0), datetime(2016, 1, 1, 0, 0, 0, 0)}

\* The rows in the orders Tweet.objects.all() may give them.
RowOrders(rows) ==
    {order \in [DOMAIN rows -> DOMAIN rows] : \A i, j \in DOMAIN rows : order[i] = order[j] => i = j}

\* set_post_year, from the i-th row of the queryset on: what is raised, and the
\* rows as saved so far.  None has no attribute year.
RECURSIVE set_post_year(_, _, _)
set_post_year(rows, order, i) ==
    IF i > Len(order) THEN [raised |-> Null, rows |-> rows]
    ELSE IF rows[order[i]].post_time.type = "NoneType"
         THEN [raised |-> "AttributeError", rows |-> rows]
         ELSE set_post_year([rows EXCEPT ![order[i]].post_year = rows[order[i]].post_time.year],
                            order, i + 1)

\* A Tweet is saved before the migration is applied.
MigrationSaveTweet(post_time) ==
    /\ Filling
    /\ Tweet' = Append(Tweet, [pk |-> Len(Tweet) + 1, post_time |-> post_time,
                               post_year |-> None])
    /\ UNCHANGED <<site, User, Photo, favorites, Account, remote, f, mf, calls, start,
                   synced, now, call>>

\* Migration 0053 is applied.  A database that runs migrations in a transaction
\* rolls the saved rows back when set_post_year raises; one that does not
\* (atomic is FALSE) keeps them.
Migrate(order, atomic) ==
    /\ response.op = "none"
    /\ LET ran == set_post_year(Tweet, order, 1)
       IN  /\ Tweet' = IF ran.raised # Null /\ atomic THEN Tweet ELSE ran.rows
           /\ response' = [op |-> "set_post_year", args |-> <<order, atomic>>,
                           result |-> [raised |-> ran.raised]]
    /\ UNCHANGED <<User, Photo, favorites, Account, remote, f, mf, calls, start, synced,
                   now, call, FlickrPhoto, Bookmark, waiting>>

NextMigration ==
    \/ \E post_time \in MigratedPostTimes : MigrationSaveTweet(post_time)
    \/ \E order \in RowOrders(Tweet) : \E atomic \in BOOLEAN : Migrate(order, atomic)

SpecMigration == InitLastfm /\ [][NextMigration]_vars

(***************************************************************************)
(* C5                                                                       *)
(***************************************************************************)
Unique(table) == \A i, j \in DOMAIN table : table[i].twitter_id = table[j].twitter_id => i = j

WithoutFetchTime(table) ==
    [i \in DOMAIN table |-> [k \in DOMAIN table[i] \ {"fetch_time"} |-> table[i][k]]]

\* C5: the savers upsert by twitter_id: the User, Tweet and Photo tables never
\* hold two rows with the same twitter_id, and a saver call that repeats the
\* previous call's payload adds no row and changes no stored field other than
\* fetch_time.
C5_Upsert ==
    /\ [](Unique(User) /\ Unique(Tweet) /\ Unique(Photo))
    /\ [][call'.n # call.n /\ call'.repeat =>
            /\ WithoutFetchTime(User') = WithoutFetchTime(User)
            /\ WithoutFetchTime(Tweet') = WithoutFetchTime(Tweet)
            /\ Photo' = Photo]_vars

\* A tweet with a photo has been saved twice in a row, after a tweet of another id.
C5_Witness ==
    /\ call.op = "save_tweet"
    /\ call.repeat
    /\ Len(Tweet) = 2
    /\ Len(Photo) >= 1

(***************************************************************************)
(* What a run received and what is stored.                                  *)
(***************************************************************************)
Received == UNION {calls[i].ids : i \in DOMAIN calls}

Stored(id) == \E pk \in DOMAIN Tweet : Tweet[pk].twitter_id = id

\* Tweet id was saved by the run in progress.
SavedByRun(id) ==
    \E pk \in DOMAIN Tweet : Tweet[pk].twitter_id = id /\ Tweet[pk].fetch_time = f.fetch_time

Done(kind) == f.pc = "done" /\ f.kind = kind

\* The tweets of the account's user on the remote timeline when the run began.
OwnTweets ==
    {id \in DOMAIN start.timeline : start.timeline[id] = User[f.account.user].twitter_id}

(***************************************************************************)
(* C1                                                                       *)
(***************************************************************************)
\* C1: when a RecentTweetsForAccount run in which no API call failed has
\* returned, every tweet of the account's user on the remote timeline whose id
\* is greater than the last_recent_id the account had when the run began (every
\* tweet when it was None) was saved by the run.
C1_IncrementalSyncComplete ==
    Done("recent") /\ hasCredentials(f.account) /\ NoCallRaised =>
        \A id \in OwnTweets :
            (start.account.last_recent_id = None \/ id > start.account.last_recent_id)
                => SavedByRun(id)

\* An incremental run (last_recent_id was set) that took two pages of tweets.
C1_Witness ==
    /\ Done("recent")
    /\ NoCallRaised
    /\ start.account.last_recent_id # None
    /\ Cardinality({i \in DOMAIN calls : calls[i].ids # {}}) >= 2
    /\ \E id \in OwnTweets : id > start.account.last_recent_id /\ SavedByRun(id)

(***************************************************************************)
(* C2                                                                       *)
(***************************************************************************)
\* C2: after a recent (resp. favorites) run that received at least one tweet,
\* the stored Account's last_recent_id (resp. last_favorite_id) is the highest
\* tweet id the run received.
C2_CheckpointIsHighestReceived ==
    /\ Done("recent") /\ Received # {} =>
            Account[f.account.pk].last_recent_id = Max(Received)
    /\ Done("favorites") /\ Received # {} =>
            Account[f.account.pk].last_favorite_id = Max(Received)

\* A run that received two pages of tweets; the first id of the second page is
\* not the highest.
C2_Witness ==
    /\ f.pc = "done"
    /\ f.kind \in {"recent", "favorites"}
    /\ Cardinality({i \in DOMAIN calls : calls[i].ids # {}}) >= 2
    /\ Cardinality(Received) >= 3

(***************************************************************************)
(* C3                                                                       *)
(***************************************************************************)
\* C3: whenever an API call of a run raised TwythonError, on the first page or
\* on a later one, the result has success == False and the message 'Error when
\* calling API: ...'; success == True is returned only when no call failed.
C3_ApiErrorIsReported ==
    f.pc = "done" /\ hasCredentials(f.account) =>
        /\ ~NoCallRaised =>
              /\ f.return_value["success"] = FALSE
              /\ f.return_value["message"] = "Error when calling API: TwythonError"
        /\ f.return_value["success"] = TRUE => NoCallRaised

(***************************************************************************)
(* C4                                                                       *)
(***************************************************************************)
\* C4: fetch() on an account without API credentials makes no API call, saves
\* nothing, leaves the Account table as it was, and returns success == False,
\* the message 'Account has no API credentials' and fetched == 0.
C4_NoCredentials ==
    f.pc # "idle" /\ ~hasCredentials(f.account) =>
        /\ f.pc = "done"
        /\ calls = <<>>
        /\ f.api = Null
        /\ Tables = start.Tables
        /\ Account = start.Account
        /\ f.return_value["success"] = FALSE
        /\ f.return_value["message"] = "Account has no API credentials"
        /\ f.return_value["fetched"] = 0

\* A recent-tweets fetch of a saved Account with a user and no credentials.
C4_Witness ==
    /\ Done("recent")
    /\ ~hasCredentials(f.account)
    /\ f.account.user # None
    /\ f.return_value["success"] = FALSE

(***************************************************************************)
(* C6                                                                       *)
(***************************************************************************)
\* C6: after a favorites run in which no API call failed, every tweet the
\* account's user favorited since the previous such run began is stored and is
\* among the favorites of the account's user, whatever its id.
C6_FavoritesSinceLastFetch ==
    Done("favorites") /\ NoCallRaised /\ start.synced.done =>
        \A id \in start.liked \ start.synced.liked :
            \E pk \in DOMAIN Tweet : /\ Tweet[pk].twitter_id = id
                                     /\ <<f.account.user, pk>> \in Range(favorites)

(***************************************************************************)
(* C7                                                                       *)
(***************************************************************************)
Pks(accounts) == [i \in DOMAIN accounts |-> accounts[i].pk]

\* The pks of the active Accounts, in the order of the table.
ActivePks == SelectSeq([pk \in DOMAIN Account |-> pk], LAMBDA pk : Account[pk].is_active)

IsPrefix(s, t) == Len(s) <= Len(t) /\ \A i \in DOMAIN s : s[i] = t[i]

\* The 'account' value fetch() gives for the Account with this pk.
NameOfPk(pk) ==
    IF Account[pk].user # None THEN ScreenName(User[Account[pk].user].twitter_id)
    ELSE "Account: " \o ToString(pk)

Named(screen_name) ==
    {pk \in DOMAIN Account :
        /\ Account[pk].user # None
        /\ ScreenName(User[Account[pk].user].twitter_id) = screen_name}

\* C8: constructing a multi-account fetcher raises FetchError, before any API
\* call, exactly when no screen_name is given and no Account is active, or the
\* screen_name is no Account's, or it is an inactive Account's; otherwise
\* accounts is every active Account, or the one active Account asked for.
C8_ConstructRaises ==
    mf.pc # "idle" =>
        /\ mf.pc = "init_raised" <=>
              IF mf.screen_name = Null
              THEN \A pk \in DOMAIN Account : ~Account[pk].is_active
              ELSE \/ Named(mf.screen_name) = {}
                   \/ \E pk \in Named(mf.screen_name) : ~Account[pk].is_active
        /\ mf.pc = "init_raised" =>
              /\ mf.exception = "FetchError"
              /\ calls = <<>>
              /\ f.pc = "idle"
        /\ mf.pc # "init_raised" =>
              /\ Len(mf.accounts) >= 1
              /\ IF mf.screen_name = Null
                 THEN Pks(mf.accounts) = ActivePks
                 ELSE /\ Len(mf.accounts) = 1
                      /\ Named(mf.screen_name) = {mf.accounts[1].pk}
                      /\ mf.accounts[1].is_active

\* The constructor raised for the screen_name of an inactive Account while
\* another Account is active.
C8_Witness ==
    /\ mf.pc = "init_raised"
    /\ mf.screen_name = "bob"
    /\ ~Account[2].is_active
    /\ Account[1].is_active

(***************************************************************************)
(* C9                                                                       *)
(***************************************************************************)
\* C9: the 'account' value of a fetch() result is the screen name of the
\* account's user when it has one, 'Account: <pk>' when it is saved without a
\* user, and 'Unsaved Account' when it has neither user nor pk, whether or not
\* the fetch succeeds.
C9_AccountValue ==
    f.pc # "idle" =>
        f.return_value["account"] =
            IF f.account.user # None THEN ScreenName(User[f.account.user].twitter_id)
            ELSE IF f.account.pk # None THEN "Account: " \o ToString(f.account.pk)
            ELSE "Unsaved Account"

\* A successful fetch for the saved Account that has no user.
C9_Witness ==
    /\ f.pc = "done"
    /\ f.account.user = None
    /\ f.return_value["account"] = "Account: 3"
    /\ f.return_value["success"] = TRUE

(***************************************************************************)
(* C10                                                                      *)
(***************************************************************************)
\* C10: fetch() of a base fetcher, whose class does not define _call_api(), on
\* an account with credentials ends by returning a result with success == False
\* and a message, not by an exception.
C10_NoCallApiIsReported ==
    /\ f.pc # "idle"
    /\ f.kind = "base"
    /\ hasCredentials(f.account)
    /\ f.pc # "_fetch_pages"
    => /\ f.pc = "done"
       /\ f.return_value["success"] = FALSE
       /\ "message" \in DOMAIN f.return_value

(***************************************************************************)
(* C11                                                                      *)
(***************************************************************************)
\* The number of tweets the first n API calls of the run returned.
RECURSIVE ReceivedCount(_)
ReceivedCount(n) == IF n = 0 THEN 0 ELSE calls[n].len + ReceivedCount(n - 1)

\* C11: the 'fetched' value a tweet fetch returns is the sum of the lengths of
\* the pages its API calls returned, and it is 0 when the run made no API call,
\* when its first call failed and when its first page was empty.
C11_FetchedIsTotalReceived ==
    f.pc = "done" /\ f.kind \in {"recent", "favorites"} =>
        /\ f.return_value["fetched"] = ReceivedCount(Len(calls))
        /\ (calls = <<>> \/ calls[1].raised \/ calls[1].len = 0) =>
                f.return_value["fetched"] = 0

\* A run that received two pages of tweets, three tweets in all.
C11_Witness ==
    /\ Done("recent")
    /\ Cardinality({i \in DOMAIN calls : calls[i].len > 0}) >= 2
    /\ f.return_value["fetched"] = 3

(***************************************************************************)
(* C12                                                                      *)
(***************************************************************************)
NoDuplicates(rows) == \A i, j \in DOMAIN rows : rows[i] = rows[j] => i = j

\* C12: recent_tweets() returns stored tweets of users that are not private,
\* each once, newest first and at most `limit` of them, and none at all for the
\* screen_name of a private user; recent_photos() returns stored photos that
\* are not private, each once and at most `limit` of them.
C12_RecentItemsArePublic ==
    /\ response.op = "recent_tweets" =>
          LET tweets == response.result
          IN  /\ \A i \in DOMAIN tweets :
                    /\ tweets[i] \in DOMAIN Tweet
                    /\ ~User[Tweet[tweets[i]].user].is_private
              /\ NoDuplicates(tweets)
              /\ \A i, j \in DOMAIN tweets :
                    i < j => Tweet[tweets[i]].created_at >= Tweet[tweets[j]].created_at
              /\ Len(tweets) <= response.args[2]
              /\ (\E u \in DOMAIN User : /\ User[u].screen_name = response.args[1]
                                         /\ User[u].is_private)
                    => tweets = <<>>
    /\ response.op = "recent_photos" =>
          LET photos == response.result
          IN  /\ \A i \in DOMAIN photos :
                    /\ photos[i] \in DOMAIN FlickrPhoto
                    /\ ~FlickrPhoto[photos[i]].is_private
              /\ NoDuplicates(photos)
              /\ Len(photos) <= response.args[2]

\* recent_tweets() gave a tweet while it left out the tweet of an Account's
\* user who became private after that tweet was saved.
C12_Witness ==
    /\ response.op = "recent_tweets"
    /\ response.args[1] = Null
    /\ response.result # <<>>
    /\ \E pk \in DOMAIN Tweet :
          /\ Tweet[pk].user \in objects_with_accounts
          /\ User[Tweet[pk].user].is_private
          /\ ~Tweet[pk].is_private
          /\ pk \notin Range(response.result)

(***************************************************************************)
(* C13                                                                      *)
(***************************************************************************)
\* The lists of a page hold no private Photo or Bookmark and no Tweet, posted
\* or favorited, whose posting user is private.
NoPrivateItem(page) ==
    /\ \A i \in DOMAIN page.flickr_photo_list :
          ~FlickrPhoto[page.flickr_photo_list[i]].is_private
    /\ \A i \in DOMAIN page.pinboard_bookmark_list :
          ~Bookmark[page.pinboard_bookmark_list[i]].is_private
    /\ \A i \in DOMAIN page.twitter_tweet_list :
          ~User[Tweet[page.twitter_tweet_list[i]].user].is_private
    /\ \A i \in DOMAIN page.twitter_favorite_list :
          ~User[Tweet[page.twitter_favorite_list[i]].user].is_private

\* C13: whatever the tables hold, the home page and the page of a day list no
\* private Photo or Bookmark, no Tweet whose user is private and no favorited
\* Tweet whose posting user is private; the day's total_count is the number of
\* items the page lists.
C13_PagesListNoPrivateItem ==
    /\ response.op = "home" => NoPrivateItem(response.result)
    /\ response.op = "day_archive" =>
          /\ NoPrivateItem(response.result)
          /\ response.result.total_count =
                Len(response.result.flickr_photo_list)
                + Len(response.result.pinboard_bookmark_list)
                + Len(response.result.twitter_tweet_list)
                + Len(response.result.twitter_favorite_list)

\* The page of a day lists an item while it leaves out a tweet of that day
\* that a public user with an Account favorited and a private user posted.
C13_Witness ==
    /\ response.op = "day_archive"
    /\ response.result.total_count >= 1
    /\ \E pk \in DOMAIN Tweet : \E u \in objects_with_accounts :
          /\ <<u, pk>> \in Range(favorites)
          /\ ~User[u].is_private
          /\ User[Tweet[pk].user].is_private
          /\ Tweet[pk].created_at = response.result.day
          /\ pk \notin Range(response.result.twitter_favorite_list)

(***************************************************************************)
(* C14                                                                      *)
(***************************************************************************)
\* The first instant of the day, month or year that contains date.
FirstInstant(date, period) ==
    datetime(date.year,
             IF period = "year" THEN 1 ELSE date.month,
             IF period = "day" THEN date.day ELSE 1,
             0, 0, 0, 0)

\* The lengths of the months of a year that is not a leap year.
MonthLengths == <<31, 28, 31, 30, 31, 30, 31, 31, 30, 31, 30, 31>>

\* The last day of the month or year that contains date, or date's own day.
LastDay(date, period) ==
    IF period = "day" THEN date.day
    ELSE IF period = "year" THEN 31
    ELSE IF date.month = 2 /\ date.year \in {2000, 2016} THEN 29
    ELSE MonthLengths[date.month]

\* The last instant of the day, month or year that contains date.
LastInstant(date, period) ==
    datetime(date.year,
             IF period = "year" THEN 12 ELSE date.month,
             LastDay(date, period),
             23, 59, 59, 999999)

\* C14: get_post_times(date, period) returns the first and the last instant of
\* the day, month or year that contains date, the same pair for every datetime
\* of that period.
C14_PostTimesCoverThePeriod ==
    response.op = "get_post_times" =>
        /\ response.result[1] = FirstInstant(response.args[1], response.args[2])
        /\ response.result[2] = LastInstant(response.args[1], response.args[2])

(***************************************************************************)
(* C15                                                                      *)
(***************************************************************************)
\* The arguments for which the tags are to raise TypeError.
TypeErrorArgs(account, date, period) ==
    \/ account.type \notin {"NoneType", "Account"}
    \/ (date.type = "NoneType") # (period.type = "NoneType")
    \/ date.type \notin {"NoneType", "datetime"}
    \/ /\ period.type # "NoneType"
       /\ ~(period.type = "str" /\ period.value \in {"day", "month", "year"})

\* The arguments for which the tags are to raise ValueError: a limit that is
\* neither an integer (as Python has it, a bool is one) nor 'all'.
ValueErrorArgs(limit) ==
    /\ limit.type \notin {"int", "bool"}
    /\ ~(limit.type = "str" /\ limit.value = "all")

\* C15: top_albums, top_artists and top_tracks raise, and run no query, when an
\* argument is invalid: TypeError for one of date and period without the other,
\* a date that is no datetime, a period other than 'day', 'month', 'year' and an
\* account that is neither None nor an Account; ValueError for a limit that is
\* neither an integer nor 'all' (either of the two when both kinds of argument
\* are invalid).  With valid arguments, date and period both given or both
\* left out, nothing is raised and the query is run.
C15_InvalidArgumentsAreRejected ==
    response.op \in Tags =>
        LET account == response.args[1]
            artist  == response.args[2]
            limit   == response.args[3]
            date    == response.args[4]
            period  == response.args[5]
            type_error  == TypeErrorArgs(account, date, period)
            value_error == ValueErrorArgs(limit)
            raised  == response.result.raised
        IN  /\ raised # Null => ~response.result.queried
            /\ type_error \/ value_error => raised \in {"TypeError", "ValueError"}
            /\ type_error /\ ~value_error => raised = "TypeError"
            /\ value_error /\ ~type_error => raised = "ValueError"
            /\ ~type_error /\ ~value_error /\ artist.type \in {"NoneType", "Artist"} =>
                  /\ raised = Null
                  /\ response.result.queried
                  /\ (date.type = "datetime") =
                        ("min_post_time" \in DOMAIN response.result.qs_kwargs)

\* A period was given without a date, everything else being valid: TypeError
\* and no query.
C15_Witness ==
    /\ response.op = "top_albums"
    /\ response.args[1] = PyNone
    /\ response.args[2] = PyNone
    /\ response.args[3] = PyStr("all")
    /\ response.args[4] = PyNone
    /\ response.args[5] = PyStr("month")
    /\ response.result.raised = "TypeError"
    /\ ~response.result.queried

(***************************************************************************)
(* C16                                                                      *)
(***************************************************************************)
\* C16: the fetch_twitter_tweets command raises CommandError, calling no
\* fetcher, when neither --recent nor --favorites is given (asking for one of
\* them 'as well as --account' when --account was given); otherwise it fetches:
\* favorites when --favorites is given, with --recent or without, recent tweets
\* when only --recent is, for the --account given or else for all accounts.
C16_CommandFetchesWhenAsked ==
    response.op = "fetch_twitter_tweets" =>
        LET options == response.args[1]
            result  == response.result
        IN  /\ ~Truthy(options.favorites) /\ ~Truthy(options.recent) =>
                  /\ result.raised = "CommandError"
                  /\ result.called = "none"
                  /\ Truthy(options.account) =>
                        result.message = "Specify --recent or --favorites as well as --account."
            /\ Truthy(options.favorites) =>
                  result.raised = Null /\ result.called = "fetch_favorites"
            /\ ~Truthy(options.favorites) /\ Truthy(options.recent) =>
                  result.raised = Null /\ result.called = "fetch_recent"
            /\ result.called # "none" =>
                  result.screen_name =
                      IF Truthy(options.account) THEN options.account ELSE PyNone

(***************************************************************************)
(* C17                                                                      *)
(***************************************************************************)
\* C17: a tweet fetch that received no tweet, its first page being empty, its
\* first API call failing or the account having no credentials, leaves
\* last_recent_id and last_favorite_id as they were, in the object and in the
\* table, and does not save the Account.
C17_NoTweetNoCheckpoint ==
    f.pc = "done" /\ f.kind \in {"recent", "favorites"} /\ Received = {} =>
        /\ ~f.saved
        /\ f.account.last_recent_id = start.account.last_recent_id
        /\ f.account.last_favorite_id = start.account.last_favorite_id
        /\ Account = start.Account

\* A recent-tweets run of an account with a checkpoint received nothing, its
\* only call failing or returning an empty page.
C17_Witness ==
    /\ Done("recent")
    /\ Len(calls) = 1
    /\ Received = {}
    /\ start.account.last_recent_id # None
    /\ Account[f.account.pk].last_recent_id = start.account.last_recent_id

Rows(table, user, tweet) ==
    Cardinality({i \in DOMAIN table : table[i] = <<user, tweet>>})

\* The received tweets that were among the user's favorites when the run began.
Refetched ==
    {id \in Received :
        \E pk \in DOMAIN start.Tables.Tweet :
            /\ start.Tables.Tweet[pk].twitter_id = id
            /\ <<f.account.user, pk>> \in Range(start.Tables.favorites)}

\* C19: every tweet a FavoriteTweetsForAccount run has saved is among the
\* favorites of the account's user, in exactly one row however often it was
\* fetched before, and no pair ever has two rows; while a
\* RecentTweetsForAccount run leaves the favorites table as it found it.
C19_FavoritesAddedOnce ==
    /\ NoDuplicates(favorites)
    /\ f.pc # "idle" /\ f.kind = "favorites" =>
           \A id \in Received :
               \E pk \in DOMAIN Tweet : /\ Tweet[pk].twitter_id = id
                                        /\ Rows(favorites, f.account.user, pk) = 1
    /\ f.pc # "idle" /\ f.kind = "recent" => favorites = start.Tables.favorites

\* A favorites run has ended having fetched again a tweet that was already
\* among the user's favorites when it began.
C19_Witness ==
    /\ Done("favorites")
    /\ Refetched # {}

\* The photos get_next (direction 1) and get_previous (direction -1) may give
\* for photo self: public, of the same user, not self, not on the other side.
Neighbours(self, direction) ==
    {pk \in DOMAIN FlickrPhoto :
        /\ ~FlickrPhoto[pk].is_private
        /\ FlickrPhoto[pk].user = FlickrPhoto[self].user
        /\ pk # self
        /\ direction * (FlickrPhoto[pk].post_time - FlickrPhoto[self].post_time) >= 0}

\* Nothing was raised, and what was returned is None or a neighbour of self
\* with no neighbour strictly nearer in post_time, and None without neighbours.
NearestNeighbour(self, direction, returned) ==
    /\ returned.raised = Null
    /\ returned.value # None =>
        /\ returned.value \in Neighbours(self, direction)
        /\ \A pk \in Neighbours(self, direction) :
               direction * (FlickrPhoto[pk].post_time
                            - FlickrPhoto[returned.value].post_time) >= 0
    /\ Neighbours(self, direction) = {} => returned.value = None

\* C20: Photo.get_next_public_by_post_time (resp. get_previous_...) raises
\* nothing and returns None or a public photo of the same user, other than the
\* photo itself, whose post_time is >= (resp. <=) the photo's and than which no
\* other such photo is strictly nearer; it returns None when there is no such
\* photo.
C20_NextAndPreviousAreNearestPublic ==
    /\ response.op = "get_next" =>
            NearestNeighbour(response.args[1], 1, response.result)
    /\ response.op = "get_previous" =>
            NearestNeighbour(response.args[1], -1, response.result)

\* get_next returned a photo while another public photo of the same user,
\* further away in post_time, could have been returned.
C20_Witness ==
    /\ response.op = "get_next"
    /\ response.result.value # None
    /\ \E pk \in Neighbours(response.args[1], 1) :
            FlickrPhoto[pk].post_time > FlickrPhoto[response.result.value].post_time

\* The static image URL of a photo with the given secret and ending.
StaticUrl(self, secret, ending) ==
    Formatted(<<"https://farm">> \o str(self.farm) \o <<".static.flickr.com/">>
              \o <<self.server, "/">> \o str(self.flickr_id) \o <<"_", secret>> \o ending)

\* What photo.<size>_url is to be for a key of PHOTO_SIZES or VIDEO_SIZES.
SizeUrl(self, size) ==
    IF size \in DOMAIN VIDEO_SIZES
    THEN IF self.media = "photo" THEN PyNone
         ELSE Formatted(<<self.permalink, "play/", VIDEO_SIZES[size].url_size, "/",
                          IF size = <<"video", "original">>
                          THEN self.original_secret ELSE self.secret,
                          "/">>)
    ELSE IF size = <<"original">>
         THEN StaticUrl(self, self.original_secret, <<"_", "o", ".", self.original_format>>)
    ELSE IF size = <<"medium">> THEN StaticUrl(self, self.secret, <<".jpg">>)
    ELSE StaticUrl(self, self.secret, <<"_", PHOTO_SIZES[size].suffix, ".jpg">>)

\* The names <size>_url, size a key of PHOTO_SIZES or VIDEO_SIZES.
SizeUrlNames == {size \o <<"url">> : size \in DOMAIN PHOTO_SIZES \cup DOMAIN VIDEO_SIZES}

\* C21: reading a missing attribute <size>_url of a Photo, size a key of
\* PHOTO_SIZES or VIDEO_SIZES, raises nothing and gives the static image URL of
\* a photo size (original with original_secret, the suffix o and
\* original_format; medium without suffix; any other size with _<suffix>.jpg
\* and secret) and, for a video size, None when media is 'photo' and otherwise
\* <permalink>play/<url_size>/<secret>/ (original_secret only for
\* video_original); reading any other missing name raises AttributeError.
C21_SizeUrls ==
    response.op = "__getattr__" =>
        LET self == response.args[1]
            name == response.args[2]
        IN  IF name \in SizeUrlNames
            THEN /\ response.result.raised = Null
                 /\ response.result.value = SizeUrl(self, SubSeq(name, 1, Len(name) - 1))
            ELSE response.result.raised = "AttributeError"

\* video_original_url of a video was read and gave a URL.
C21_Witness ==
    /\ response.op = "__getattr__"
    /\ response.args[2] = <<"video", "original", "url">>
    /\ response.args[1].media = "video"
    /\ response.result.raised = Null
    /\ response.result.value.type = "str"

\* The media items of type 'photo' in a raw text: their positions in
\* extended_entities.media, none when the text is not JSON or holds no media.
PhotoItems(raw) ==
    IF ~raw.json THEN {}
    ELSE {i \in DOMAIN Media(raw.value) :
            Has(Media(raw.value)[i], "type") /\ Media(raw.value)[i]["type"] = "photo"}

\* The width and height stored for a size are the item's, None without the size.
SizeStored(photo, item, size, w, h) ==
    IF Has(item.sizes, size)
    THEN photo[w] = item.sizes[size].w /\ photo[h] = item.sizes[size].h
    ELSE photo[w] = None /\ photo[h] = None

\* Exactly one Photo is stored for the item, and it is the item's, of this tweet.
PhotoStored(tweet, item) ==
    /\ Cardinality(Lookup(Photo, item.id)) = 1
    /\ LET photo == Obj(Photo, item.id)
       IN  /\ photo.tweet = tweet.pk
           /\ photo.url = item.media_url_https
           /\ photo.is_private = tweet.is_private
           /\ SizeStored(photo, item, "large", "large_w", "large_h")
           /\ SizeStored(photo, item, "medium", "medium_w", "medium_h")
           /\ SizeStored(photo, item, "small", "small_w", "small_h")
           /\ SizeStored(photo, item, "thumb", "thumb_w", "thumb_h")

\* C22: save_photos(tweet) returns the number of media items of type 'photo'
\* in tweet.raw and leaves one Photo stored for each, with the tweet's
\* is_private and None for the width and height of every size the item lacks;
\* it returns 0 and leaves the Photo table as it was when raw is not JSON or
\* holds no media of type 'photo'; every stored Photo comes from an item of type
\* 'photo'; and every Tweet save_tweet stored has that number as photos_count.
C22_SavePhotosCountsPhotos ==
    /\ [](call.op = "save_photos" =>
            /\ call.returned = Cardinality(PhotoItems(call.arg.raw))
            /\ \A i \in PhotoItems(call.arg.raw) :
                   PhotoStored(call.arg, Media(call.arg.raw.value)[i]))
    /\ [](\A pk \in DOMAIN Tweet :
            /\ Tweet[pk].photos_count = Cardinality(PhotoItems(Tweet[pk].raw))
            /\ \A i \in DOMAIN Media(Tweet[pk].raw.value) \ PhotoItems(Tweet[pk].raw) :
                   Lookup(Photo, Media(Tweet[pk].raw.value)[i].id) = {})
    /\ [][call'.n # call.n /\ call'.op = "save_photos" /\ PhotoItems(call'.arg.raw) = {} =>
            call'.returned = 0 /\ Photo' = Photo]_vars

\* save_photos was given a tweet with a photo and a GIF and returned 1, and a
\* Photo stored earlier for another tweet is still there.
C22_Witness ==
    /\ call.op = "save_photos"
    /\ call.arg.raw.json
    /\ Len(Media(call.arg.raw.value)) = 2
    /\ call.returned = 1
    /\ Len(Photo) = 2

\* C23: the data migration set_post_year completes and leaves every Tweet
\* with post_year equal to the year of its post_time, from every state of the
\* table that migration 0052 permits, in which post_time may be null.
C23_SetPostYearCompletes ==
    response.op = "set_post_year" =>
        /\ response.result.raised = Null
        /\ \A pk \in DOMAIN Tweet :
               Tweet[pk].post_time.type = "datetime" =>
                   Tweet[pk].post_year = Tweet[pk].post_time.year

\* The tweets of the account's user on the remote timeline.
RemoteOwnTweets ==
    {id \in DOMAIN timeline : timeline[id] = User[Account[1].user].twitter_id}

\* C24: from an account without a checkpoint and an empty store, through any
\* sequence of RecentTweetsForAccount runs, also runs in which an API call
\* fails after pages were saved, every tweet of the account's user on the
\* remote timeline with id <= account.last_recent_id is stored.
C24_CheckpointPassesNoTweet ==
    Account[1].last_recent_id # None =>
        \A id \in RemoteOwnTweets : id <= Account[1].last_recent_id => Stored(id)

\* A checkpoint is not lower than it was; None is below every id.
NotLower(after, before) == before = None \/ (after # None /\ after >= before)

\* C25: through any sequence of runs for one account, one after the other,
\* against an API that honours since_id, no step lowers the stored
\* last_recent_id or last_favorite_id, no step of a recent run changes the
\* stored last_favorite_id, and no step of a favorites run the stored
\* last_recent_id.
C25_CheckpointsNeverDecrease ==
    [][/\ NotLower(Account'[1].last_recent_id, Account[1].last_recent_id)
       /\ NotLower(Account'[1].last_favorite_id, Account[1].last_favorite_id)
       /\ f.pc # "idle" /\ f.kind = "recent" =>
              Account'[1].last_favorite_id = Account[1].last_favorite_id
       /\ f.pc # "idle" /\ f.kind = "favorites" =>
              Account'[1].last_recent_id = Account[1].last_recent_id]_vars

\* A favorites run has written its checkpoint for an account that had a
\* last_recent_id, which is as it was.
C25_Witness ==
    /\ Done("favorites")
    /\ f.saved
    /\ start.account.last_recent_id # None
    /\ Account[1].last_favorite_id # None
    /\ Account[1].last_recent_id = start.account.last_recent_id

\* The two runs, when both have returned.
BothDone == waiting # <<>> /\ f.pc = "done" /\ waiting[1].f.pc = "done"

\* The ids the runs of a kind received.
FetchedBy(runs, kind) ==
    UNION {UNION {run.calls[i].ids : i \in DOMAIN run.calls} :
                run \in {r \in runs : r.f.kind = kind}}

\* C26: when two runs for the same Account, each with its own loaded copy of
\* it, have run at the same time and both have returned, the stored Account
\* has the highest id the recent run(s) received in last_recent_id and the
\* highest id the favorites run(s) received in last_favorite_id, and neither
\* is lower than it was before the first of them began.
C26_NoCheckpointWriteIsLost ==
    BothDone =>
        LET runs   == {Context, waiting[1]}
            first  == CHOOSE r \in runs : \A q \in runs : r.f.fetch_time <= q.f.fetch_time
            before == first.start.Account[1]
        IN  /\ FetchedBy(runs, "recent") # {} =>
                    Account[1].last_recent_id = Max(FetchedBy(runs, "recent"))
            /\ FetchedBy(runs, "favorites") # {} =>
                    Account[1].last_favorite_id = Max(FetchedBy(runs, "favorites"))
            /\ NotLower(Account[1].last_recent_id, before.last_recent_id)
            /\ NotLower(Account[1].last_favorite_id, before.last_favorite_id)

\* C27: when no run is in progress, every stored Tweet has the is_private of
\* its stored User and every stored Photo the is_private of its Tweet, also
\* after the user changed the 'protected' flag between two runs of which the
\* second fetched only some of the user's tweets again.
C27_PrivacyFlagsAgree ==
    ~Running =>
        /\ \A pk \in DOMAIN Tweet : Tweet[pk].is_private = User[Tweet[pk].user].is_private
        /\ \A pk \in DOMAIN Photo : Photo[pk].is_private = Tweet[Photo[pk].tweet].is_private

====
